---------------------------- MODULE Spec2Model ----------------------------
(***************************************************************************)
(* Verification model of the Vector Logic benchmark: the three renderers   *)
(* (VectorRenderer, DomRenderer, FigmaSimulator), the layout cursor, the   *)
(* BenchmarkEngine and the ExportEngine friendliness scorer.               *)
(*                                                                         *)
(* Numbers.  JavaScript numbers are modelled as exact rationals with the   *)
(* fixed denominator Q: the integer n stands for n/Q.  A scale factor is   *)
(* given as a number of eighths (k stands for k/ScaleDen), so that every   *)
(* product, half and 21st the renderers compute is an integer number of    *)
(* 1/Q units, and so that Math.round has something to round.               *)
(*                                                                         *)
(* Strings.  A text supplied by the caller is a sequence of Unicode code   *)
(* points.  A renderer's output string is described by what determines it: *)
(* the template (code path) it was produced by and the values interpolated *)
(* into the template, in order.  The literal parts of each template are    *)
(* measured from the source (UTF-16 code units, UTF-8 bytes, tag matches). *)
(***************************************************************************)
EXTENDS Integers, Sequences, FiniteSets, TLC

VARIABLES
  cls,            \* the renderer class the instance belongs to
  currentY,       \* VectorRenderer.currentY (layout cursor), in 1/Q units
  tiltX, tiltY,   \* VectorRenderer.tiltX / tiltY, in 1/Q units
  patternCache,   \* VectorRenderer.patternCache: entries in insertion order
  stats,          \* VectorRenderer.stats
  styleInjected,  \* DomRenderer.styleInjected
  clock,          \* the wall clock (Date.now / performance.now), in ms
  out,            \* what the last public call on the instance returned/threw
  memo,           \* an earlier result, kept by the caller for comparison
  advLog,         \* history: the (height, gap) arguments since the last reset
  bench,          \* BenchmarkEngine: the call in progress and its locals
  benchLog,       \* history: the outputs renderFn returned in the current run
  result,         \* what the last BenchmarkEngine call returned, none while one runs
  analysis,       \* what the last ExportEngine scorer call returned
  app,            \* app.js: the buttons, the click handlers and the timers of the page
  results,        \* BenchmarkEngine.results: the entries runBenchmark has stored
  chaos           \* the chaos tests: ChaosOrchestrator, ChaosMode and the chaos sequence of app.js

vars == <<cls, currentY, tiltX, tiltY, patternCache, stats, styleInjected,
          clock, out, memo, advLog, bench, benchLog, result, analysis, app,
          results, chaos>>

rendererVars == <<cls, currentY, tiltX, tiltY, patternCache, stats,
                  styleInjected, out, memo, advLog>>
benchVars == <<bench, benchLog, result, results>>

-----------------------------------------------------------------------------
(* Arithmetic                                                              *)

Q == 16 * 21
ScaleDen == 2 * 4
UnitsPerStep == Q \div ScaleDen

\* v * scale, for an integer literal v of the source and scale = k/ScaleDen
Px(v, k) == v * k * UnitsPerStep

\* v as a number (an integer literal of the source that is not scaled)
Lit(v) == v * Q

Abs(n) == IF n < 0 THEN -n ELSE n

RECURSIVE Digits(_)
Digits(n) == IF n < 10 THEN 1 ELSE 1 + Digits(n \div 10)

RECURSIVE Pow10(_)
Pow10(d) == IF d = 0 THEN 1 ELSE 10 * Pow10(d - 1)


\* Math.round: the nearest integer, halves rounded up
MathRound(n) == ((2 * n + Q) \div (2 * Q)) * Q

\* The number of characters of Number::toString for n/Q.  A value with up to
\* four decimals is printed exactly; a value whose decimal expansion is longer
\* (the 21sts of the QR grid) is printed with about 17 significant digits, of
\* which this counts only the first: a lower bound.
FracLen(r) ==
  IF r = 0 THEN 0
  ELSE IF \E d \in 1..4 : (r * Pow10(d)) % Q = 0
       THEN 1 + (CHOOSE d \in 1..4 : /\ (r * Pow10(d)) % Q = 0
                                     /\ \A e \in 1..(d - 1) : (r * Pow10(e)) % Q # 0)
       ELSE 2

NumLen(n) ==
  (IF n < 0 THEN 1 ELSE 0) + Digits(Abs(n) \div Q) + FracLen(Abs(n) % Q)

\* the characters of the numbers s[lo], ..., s[hi] together
RECURSIVE SumNumLenIn(_, _, _)
SumNumLenIn(s, lo, hi) ==
  IF lo > hi THEN 0
  ELSE IF lo = hi THEN NumLen(s[lo])
  ELSE LET mid == (lo + hi) \div 2
       IN SumNumLenIn(s, lo, mid) + SumNumLenIn(s, mid + 1, hi)

SumNumLen(s) == SumNumLenIn(s, 1, Len(s))

-----------------------------------------------------------------------------
(* Strings: UTF-16 code units and UTF-8 bytes                              *)

\* String.fromCodePoint: the UTF-16 code units of one code point
UnitsOf(cp) ==
  IF cp < 65536 THEN <<cp>>
  ELSE << 55296 + ((cp - 65536) \div 1024), 56320 + ((cp - 65536) % 1024) >>

RECURSIVE ToUnits(_)
ToUnits(cps) == IF cps = <<>> THEN <<>> ELSE UnitsOf(Head(cps)) \o ToUnits(Tail(cps))

IsHigh(u) == u >= 55296 /\ u <= 56319
IsLow(u)  == u >= 56320 /\ u <= 57343

\* bytes of the UTF-8 encoding of one scalar value
Utf8Bytes(cp) ==
  IF cp < 128 THEN 1 ELSE IF cp < 2048 THEN 2 ELSE IF cp < 65536 THEN 3 ELSE 4

\* new Blob([content]).size for a string given as its code units: the string
\* is converted to scalar values (a surrogate pair is one scalar value, a lone
\* surrogate becomes U+FFFD) and encoded as UTF-8.
RECURSIVE BlobSize(_)
BlobSize(us) ==
  IF us = <<>> THEN 0
  ELSE IF Len(us) >= 2 /\ IsHigh(us[1]) /\ IsLow(us[2])
       THEN 4 + BlobSize(SubSeq(us, 3, Len(us)))
  ELSE IF IsHigh(us[1]) \/ IsLow(us[1])
       THEN 3 + BlobSize(Tail(us))
  ELSE Utf8Bytes(us[1]) + BlobSize(Tail(us))

\* String.prototype.length
StrLength(us) == Len(us)

-----------------------------------------------------------------------------
(* Arguments                                                               *)

\* a scale argument: a number k/ScaleDen, or a value that is not a number
NumArg(k) == [t |-> "number", k |-> k]
StrArg    == [t |-> "string", k |-> 0]

\* sample texts: "Hi" and the Cyrillic word Diia (U+0414 U+0456 U+044F)
\* a text field that is absent (undefined; -1 is no code point), and the empty
\* string
TxtNone == <<-1>>
TxtEmpty == <<>>
TxtHi   == <<72, 105>>
TxtDiia == <<1044, 1110, 1103>>

\* a props argument: an object with optional text fields, null, a primitive,
\* or no argument at all
PropsObj(ti, de, bt, su) ==
  [t |-> "object", title |-> ti, description |-> de, buttonText |-> bt, subtitle |-> su]
DefaultProps == PropsObj(TxtNone, TxtNone, TxtNone, TxtNone)
NullProps    == [t |-> "null", title |-> TxtNone, description |-> TxtNone,
                 buttonText |-> TxtNone, subtitle |-> TxtNone]
NumberProps  == [t |-> "number", title |-> TxtNone, description |-> TxtNone,
                 buttonText |-> TxtNone, subtitle |-> TxtNone]

OmittedProps == [t |-> "undefined", title |-> TxtNone, description |-> TxtNone,
                 buttonText |-> TxtNone, subtitle |-> TxtNone]

\* the default parameter: props = {}
OrDefaultProps(props) == IF props.t = "undefined" THEN DefaultProps ELSE props

\* a truthiness that would take the empty string for a text
Truthy_Nullish(a) == a # TxtNone

\* a || b for texts: the empty string and undefined are falsy
Truthy(a) == a # TxtNone /\ a # TxtEmpty
Or(a, b) == IF Truthy(a) THEN a ELSE b

-----------------------------------------------------------------------------
(* Layout cursor (both VectorRenderer classes)                              *)

\* reset(): this.currentY = 0
reset == 0

\* an advance that would drop the gap, and one that would drop the height
advanceY_NoGap(y, height, gap) == y + height
advanceY_NoHeight(y, height, gap) == y + gap

\* advanceY(height, gap): this.currentY += height + gap; return this.currentY
advanceY(y, height, gap) == y + height + gap

-----------------------------------------------------------------------------
(* Results of a render call                                                *)

NoPattern == [w |-> 0, h |-> 0, k |-> 0]

\* What a render call returned (path names the template that produced the
\* string) or threw (path = "throw", err the error).  ys/hs are the tops and the
\* heights of the stacked blocks as the call read them from the cursor, trace
\* the values the cursor took during the call, tilt and pattern and stamp the
\* other values the call read and interpolated.  fn is the method the caller
\* called and pre the cursor as the call found it; the caller's action sets both.
MkOut(c, path, err, props, sc, ys, hs, trace, tilt, pattern, stamp) ==
  [cls |-> c, fn |-> path, path |-> path, err |-> err, props |-> props,
   scale |-> sc, pre |-> 0, ys |-> ys, hs |-> hs, trace |-> trace,
   tilt |-> tilt, pattern |-> pattern, stamp |-> stamp]

NoOut == MkOut("none", "none", "", DefaultProps, NumArg(0), <<>>, <<>>, <<>>,
               <<0, 0>>, NoPattern, 0)

Thrown(c, err, props, sc) ==
  MkOut(c, "throw", err, props, sc, <<>>, <<>>, <<>>, <<0, 0>>, NoPattern, 0)

IsRender(o) == o.path \in {"stack", "upload", "idcard", "dom", "figma"}
IsVector(o) == o.path \in {"stack", "upload", "idcard"}

-----------------------------------------------------------------------------
(* VectorRenderer, stack-layout class (dom-renderer.js)                    *)

\* a start that would add the top padding to the cursor as it was left
Stack_start_Stale(y, k) == y + Px(24, k)

\* this.reset(); ...; this.currentY = 24 * scale
Stack_start(y, k) == LET afterReset == reset IN Px(24, k)

\* render(props, scale): the cursor values, block by block
Stack_render(y, props, sc) ==
  LET k  == sc.k
      y1 == Stack_start(y, k)
      y2 == advanceY(y1, Px(24, k), Px(8, k))
      y3 == advanceY(y2, Px(20, k), Px(24, k))
      y4 == advanceY(y3, Px(120, k), Px(32, k))
  IN IF props.t = "null"
     THEN \* props.title of null throws while the title block is built
          [y |-> y1, out |-> Thrown("stack", "TypeError", props, sc)]
     ELSE [y |-> y4,
           out |-> MkOut("stack", "stack", "", props, sc,
                         <<y1, y2, y3, y4>>,
                         <<Px(24, k), Px(20, k), Px(120, k), Px(56, k)>>,
                         <<reset, y1, y2, y3, y4>>,
                         <<0, 0>>, NoPattern, 0)]

\* the numbers interpolated into the SVG, in the order of the output
Stack_nums(o) ==
  LET k == o.scale.k
      W == Px(360, k)
      H == Px(680, k)
      P == Px(16, k)
      R == Px(16, k)
      zoneWidth  == W - (P * 2)
      zoneHeight == Px(120, k)
      btnHeight  == Px(56, k)
  IN << W, H, W, H, W - Lit(16), H - Lit(32) >>
     \o << P, o.ys[1] + Px(18, k), Px(18, k) >>
     \o << P, o.ys[2] + Px(14, k), Px(14, k) >>
     \o << P, o.ys[3], zoneWidth, zoneHeight, R, zoneWidth, zoneHeight, R,
           Px(2, k), Px(8, k), Px(8, k),
           zoneWidth \div 2, (zoneHeight \div 2) - Px(30, k),
           Px(-12, k), Px(12, k), Px(12, k), Px(12, k), Px(2, k),
           Px(24, k), Px(2, k),
           zoneWidth \div 2, (zoneHeight \div 2) + Px(20, k), Px(16, k) >>
     \o << P, o.ys[4], zoneWidth, btnHeight, R,
           zoneWidth \div 2, (btnHeight \div 2) + Px(6, k), Px(18, k) >>

\* the linear dimensions written as literals in the template: the card
\* rectangle's x="8" y="16" rx="24" and the content layer's translate(0, 32)
Stack_literalDims == << Lit(8), Lit(16), Lit(24), Lit(32) >>

\* every linear dimension of the output
Stack_dims(o) == Stack_nums(o) \o Stack_literalDims

\* the template without its interpolated numbers and texts
StackFixedUnits == 1755
StackFixedBytes == 1769
StackTags == 32

\* the default texts: title and description
DefaultTitleUnits == 23
DefaultTitleBytes == 45
DefaultDescUnits == 27
DefaultDescBytes == 52

-----------------------------------------------------------------------------
(* VectorRenderer 2.0.0 (vector-renderer.js)                               *)

\* DIIA_TOKENS
SpacingMd == 16
SpacingXl == 32
FontXs == 7
FontSm == 8
FontBase == 10
FontMd == 14
FontLg == 18
FontXxl == 40
RadiusMd == 16
RadiusLg == 24
CanvasWidth == 360
CanvasHeight == 680
CardHeight == 220
PhotoRadius == 45
QrSize == 60
FlagWidth == 40
FlagHeight == 24

\* a clamp that would bound the value from above only
_clamp_UpperOnly(value, min, max) == IF max < value THEN max ELSE value

\* _clamp(value, min, max)
_clamp(value, min, max) ==
  LET m == IF max < value THEN max ELSE value IN IF min > m THEN min ELSE m

\* a validation of props that would accept every value
_validateProps_Lenient(props) == ""

\* _validateProps(props): the error thrown, "" when none
_validateProps(props) ==
  IF props.t # "null" /\ props.t # "object" THEN "TypeError: Props must be an object" ELSE ""

\* the largest accepted scale
ScaleLimit == 100

\* a validation that would test only the type and the sign
_validateScale_NoLimits(sc) ==
  IF sc.t # "number" THEN "TypeError: Scale must be a number"
  ELSE IF sc.k < 0 THEN "RangeError"
  ELSE ""

\* _validateScale(scale): the error thrown, "" when none
_validateScale(sc) ==
  IF sc.t # "number" THEN "TypeError: Scale must be a number"
  ELSE IF sc.k <= 0 \/ sc.k > ScaleLimit * ScaleDen THEN "RangeError"
  ELSE ""

\* patternCache.size at which the oldest entry is evicted
CacheLimit == 50

CacheIndex(cache, key) ==
  IF \E i \in 1..Len(cache) : cache[i].key = key
  THEN CHOOSE i \in 1..Len(cache) : cache[i].key = key
  ELSE 0

\* a key that would leave the scale out
CacheKey_NoScale(width, height, k) == [w |-> width, h |-> height, k |-> 0]

\* `pattern_${width}_${height}_${scale}`: the three numbers, each in full
CacheKey(width, height, k) == [w |-> width, h |-> height, k |-> k]

\* the pattern computed by the loop: the string is described by the
\* arguments it is computed from (PatternNums gives its numbers)
ComputePattern(width, height, k) == [w |-> width, h |-> height, k |-> k]

\* generateSecurityPattern of the renderer that has no cache
Uncached_generateSecurityPattern(width, height, k) == ComputePattern(width, height, k)

\* a miss that would store the pattern without evicting
generateSecurityPattern_NoEviction(cache, st, width, height, k) ==
  LET i == CacheIndex(cache, CacheKey(width, height, k))
  IN IF i # 0
     THEN [cache |-> cache, stats |-> [st EXCEPT !.cacheHits = @ + 1],
           pattern |-> cache[i].val]
     ELSE [cache |-> Append(cache, [key |-> CacheKey(width, height, k),
                                    val |-> ComputePattern(width, height, k)]),
           stats |-> [st EXCEPT !.cacheMisses = @ + 1],
           pattern |-> ComputePattern(width, height, k)]

\* generateSecurityPattern(width, height, scale) on an instance whose cache
\* and stats are given: the two after the call, and the string returned
generateSecurityPattern(cache, st, width, height, k) ==
  LET cacheKey == CacheKey(width, height, k)
      i == CacheIndex(cache, cacheKey)
  IN IF i # 0
     THEN [cache |-> cache,
           stats |-> [st EXCEPT !.cacheHits = @ + 1],
           pattern |-> cache[i].val]
     ELSE LET pattern == ComputePattern(width, height, k)
              kept == IF Len(cache) >= CacheLimit THEN Tail(cache) ELSE cache
          IN [cache |-> Append(kept, [key |-> cacheKey, val |-> pattern]),
              stats |-> [st EXCEPT !.cacheMisses = @ + 1],
              pattern |-> pattern]

\* the x of each path of a pattern: for (i = 0; i < width; i += spacing)
RECURSIVE PatternXs(_, _, _)
PatternXs(i, width, spacing) ==
  IF i < width /\ spacing > 0 THEN <<i>> \o PatternXs(i + spacing, width, spacing)
  ELSE <<>>

RECURSIVE PatternNums(_, _, _)
PatternNums(xs, pat, spacing) ==
  IF xs = <<>> THEN <<>>
  ELSE << Head(xs), Head(xs) - spacing, pat.h, pat.k * (UnitsPerStep \div 2) >>
       \o PatternNums(Tail(xs), pat, spacing)

\* the first 8 rows of the 21 x 21 grid of generateVectorQR
QRPattern ==
  << 1, 1, 1, 1, 1, 1, 1, 0, 0, 1, 0, 1, 0, 1, 1, 1, 1, 1, 1, 1, 1,
     1, 0, 0, 0, 0, 0, 1, 0, 1, 0, 1, 0, 1, 0, 1, 0, 0, 0, 0, 0, 1,
     1, 0, 1, 1, 1, 0, 1, 0, 0, 1, 1, 1, 0, 0, 1, 0, 1, 1, 1, 0, 1,
     1, 0, 1, 1, 1, 0, 1, 0, 1, 0, 1, 0, 1, 0, 1, 0, 1, 1, 1, 0, 1,
     1, 0, 1, 1, 1, 0, 1, 0, 0, 1, 0, 1, 0, 0, 1, 0, 1, 1, 1, 0, 1,
     1, 0, 0, 0, 0, 0, 1, 0, 1, 0, 1, 0, 1, 0, 1, 0, 0, 0, 0, 0, 1,
     1, 1, 1, 1, 1, 1, 1, 0, 1, 0, 1, 0, 1, 0, 1, 1, 1, 1, 1, 1, 1,
     0, 0, 0, 0, 0, 0, 0, 0, 0, 1, 0, 1, 0, 0, 0, 0, 0, 0, 0, 0, 0 >>

QRGrid == 21

\* the cells of the grid that are set, row by row
QRCells ==
  SelectSeq([n \in 1..Len(QRPattern) |-> n], LAMBDA n : QRPattern[n] = 1)

\* generateVectorQR(x, y, size, scale): px, py, h, v, -h of every set cell
QRNums(x, y, pixelSize) ==
  [m \in 1..(5 * Len(QRCells)) |->
     LET c == QRCells[((m - 1) \div 5) + 1]
         i == (c - 1) \div QRGrid
         j == (c - 1) % QRGrid
         f == (m - 1) % 5
     IN CASE f = 0 -> x + j * pixelSize
          [] f = 1 -> y + i * pixelSize
          [] f = 4 -> -pixelSize
          [] OTHER -> pixelSize]

generateVectorQR(x, y, size, k) == QRNums(x, y, Px(size, k) \div QRGrid)

\* renderDiiaIDCard(props, scale) on an instance whose fields are y, tilt,
\* cache, st: the fields after the call and what it returned or threw
renderDiiaIDCard(y, tilt, cache, st, props, sc) ==
  LET same == [y |-> y, cache |-> cache, stats |-> st, didReset |-> FALSE]
  IN IF _validateProps(OrDefaultProps(props)) # ""
     THEN same @@ [out |-> Thrown("v2", _validateProps(OrDefaultProps(props)), props, sc)]
     ELSE IF _validateScale(sc) # ""
     THEN same @@ [out |-> Thrown("v2", _validateScale(sc), props, sc)]
     ELSE LET k     == sc.k
              st1   == [st EXCEPT !.rendersCount = @ + 1]
              P     == Px(SpacingMd, k)
              cardW == Px(CanvasWidth, k) - (P * 2)
              cardH == Px(CardHeight, k)
              g     == generateSecurityPattern(cache, st1, cardW, cardH, k)
          IN IF props.t = "null"
             THEN \* props.title of null throws after the pattern was generated
                  [y |-> reset, cache |-> g.cache, stats |-> g.stats, didReset |-> TRUE,
                   out |-> Thrown("v2", "TypeError", props, sc)]
             ELSE [y |-> reset, cache |-> g.cache, stats |-> g.stats, didReset |-> TRUE,
                   out |-> MkOut("v2", "idcard", "", props, sc, <<>>, <<>>,
                                 <<reset>>, tilt, g.pattern, 0)]

\* the percentages of generateHologramGradient(id, tiltX * 0.5, tiltY * 0.5)
IdCard_gradient(o) ==
  << 50 * o.tilt[1], 50 * o.tilt[2], Lit(100) + 50 * o.tilt[1], Lit(100) + 50 * o.tilt[2] >>

RECURSIVE IdCard_fields(_, _, _, _)
IdCard_fields(n, dataX, dataY, k) ==
  IF n = 0 THEN <<>>
  ELSE << dataX, dataY, Px(FontXs, k), dataX, dataY + Px(12, k), Px(FontBase, k) >>
       \o IdCard_fields(n - 1, dataX, dataY + Px(12, k) + Px(18, k), k)

\* the lengths interpolated into the ID card, in the order of the output
IdCard_lengths(o) ==
  LET k     == o.scale.k
      W     == Px(CanvasWidth, k)
      H     == Px(CanvasHeight, k)
      P     == Px(SpacingMd, k)
      R     == Px(RadiusLg, k)
      cardW == W - (P * 2)
      cardH == Px(CardHeight, k)
      cardX == P
      cardY == P + Px(SpacingXl, k)
      cardR == Px(RadiusMd, k)
      card  == << cardX, cardY, cardW, cardH, cardR >>
      flagX == cardX + (P * 2)
      flagY == cardY + (P * 2)
      flagW == Px(FlagWidth, k)
      flagH == Px(FlagHeight, k)
      flagHalfH == MathRound(flagH \div 2)
      titleX == flagX + flagW + Px(12, k)
      titleY == flagY + Px(18, k)
      photoR == Px(PhotoRadius, k)
      photoX == cardX + (P * 2) + photoR
      photoY == cardY + Px(90, k)
      dataX  == photoX + photoR + Px(20, k)
      dataY  == cardY + Px(70, k)
      qrSize == Px(QrSize, k)
      qrX    == cardX + cardW - qrSize - (P * 2)
      qrY    == cardY + cardH - qrSize - (P * 2)
      logoX  == cardX + (P * 2)
      logoY  == cardY + cardH - Px(40, k)
  IN << W, H, W, H >> \o card \o << W, H, R >> \o card
     \o PatternNums(PatternXs(0, o.pattern.w, Px(20, o.pattern.k)), o.pattern,
                    Px(20, o.pattern.k))
     \o card
     \o << flagX, flagY, flagW, flagHalfH, flagX, flagY + flagHalfH, flagW, flagH - flagHalfH >>
     \o << titleX, titleY, Px(FontMd, k), titleX, titleY + Px(16, k), Px(FontBase, k) >>
     \o << photoX, photoY, photoR, Px(2, k), photoX, photoY + Px(5, k), Px(FontXxl, k) >>
     \o IdCard_fields(5, dataX, dataY, k)
     \o << qrX, qrY, qrSize, qrSize >>
     \o generateVectorQR(qrX, qrY, QrSize, k)
     \o << logoX, logoY, Px(FontLg, k),
           cardX + (cardW \div 2), cardY + cardH - Px(12, k), Px(FontSm, k) >>

\* every number interpolated into the ID card
IdCard_nums(o) == IdCard_gradient(o) \o IdCard_lengths(o)

\* the lengths written as literals: feDropShadow dy="4" stdDeviation="8"
IdCard_literalDims == << Lit(4), Lit(8) >>

IdCard_dims(o) == IdCard_lengths(o) \o IdCard_literalDims

\* the ID card without its interpolated numbers and without the title
IdCardFixedUnits == 5268
IdCardFixedBytes == 5586
IdCardTags == 75
IdCardTitleUnits == 33
IdCardTitleBytes == 81

\* renderUploadScreen(props, scale): no field of the instance is written; the
\* blocks are stacked with a local cursor (let currentY)
renderUploadScreen(y, tilt, cache, st, props, sc) ==
  LET same == [y |-> y, cache |-> cache, stats |-> st, didReset |-> FALSE]
  IN IF _validateScale(sc) # ""
     THEN same @@ [out |-> Thrown("v2", _validateScale(sc), props, sc)]
     ELSE IF props.t = "null"
     THEN same @@ [out |-> Thrown("v2", "TypeError", props, sc)]
     ELSE LET k     == sc.k
              P     == Px(SpacingMd, k)
              cardY == Px(16, k)
              cardH == Px(CanvasHeight, k) - Px(32, k)
              c1    == cardY + Px(32, k)
              c2    == c1 + Px(24, k)
              c3    == c2 + Px(32, k)
              btnH  == Px(56, k)
              btnY  == cardY + cardH - btnH - P
          IN same @@ [out |-> MkOut("v2", "upload", "", props, sc,
                                    <<c1, c2, c3, btnY>>, <<>>, <<c1, c2, c3>>,
                                    <<0, 0>>, NoPattern, 0)]

\* the numbers interpolated into the upload screen, in the order of the output
Upload_nums(o) ==
  LET k      == o.scale.k
      width  == Px(CanvasWidth, k)
      height == Px(CanvasHeight, k)
      P      == Px(SpacingMd, k)
      cardY  == Px(16, k)
      cardX  == Px(8, k)
      cardW  == width - Px(16, k)
      cardH  == height - Px(32, k)
      contentX == cardX + P
      zoneH  == Px(120, k)
      zoneW  == cardW - (P * 2)
      centerX == contentX + (zoneW \div 2)
      centerY == o.ys[3] + (zoneH \div 2)
      arrowY  == centerY - Px(12, k)
      btnH   == Px(56, k)
      btnY   == o.ys[4]
  IN << width, height, width, height >>
     \o << width, height, Px(RadiusLg, k) >>
     \o << cardX, cardY, cardW, cardH, Px(24, k) >>
     \o << contentX, o.ys[1], Px(18, k) >>
     \o << contentX, o.ys[2], Px(14, k) >>
     \o << contentX, o.ys[3], zoneW, zoneH, Px(16, k), Px(2, k), Px(8, k), Px(8, k) >>
     \o << centerX, arrowY, centerX, arrowY + Px(12, k),
           centerX, arrowY, centerX - Px(4, k), arrowY + Px(4, k),
           centerX, arrowY, centerX + Px(4, k), arrowY + Px(4, k), Px(2, k) >>
     \o << centerX, centerY + Px(16, k), Px(16, k) >>
     \o << contentX, btnY, zoneW, btnH, Px(16, k) >>
     \o << centerX, btnY + (btnH \div 2) + Px(6, k), Px(18, k) >>

\* the upload screen without its interpolated numbers and texts
UploadFixedUnits == 950
UploadFixedBytes == 963
UploadTags == 15
UploadTitleUnits == 45
UploadTitleBytes == 118
UploadDescUnits == 52
UploadDescBytes == 130
UploadButtonUnits == 21
UploadButtonBytes == 54

\* render(props, scale): the upload screen when props has a buttonText, a
\* subtitle or a description, the ID card otherwise
render(y, tilt, cache, st, props, sc) ==
  IF props.t = "null"
  THEN \* props.buttonText of null throws
       [y |-> y, cache |-> cache, stats |-> st, didReset |-> FALSE,
        out |-> Thrown("v2", "TypeError", props, sc)]
  ELSE IF Truthy(props.buttonText) \/ Truthy(props.subtitle) \/ Truthy(props.description)
  THEN renderUploadScreen(y, tilt, cache, st, props, sc)
  ELSE renderDiiaIDCard(y, tilt, cache, st, props, sc)

-----------------------------------------------------------------------------
(* DomRenderer and FigmaSimulator                                          *)

\* DomRenderer.render(props, scale): injectStyles(), then the template
DomRenderer_render(injected, props, sc) ==
  IF props.t = "null"
  THEN [styleInjected |-> TRUE, out |-> Thrown("dom", "TypeError", props, sc)]
  ELSE [styleInjected |-> TRUE,
        out |-> MkOut("dom", "dom", "", props, sc, <<>>, <<>>, <<>>, <<0, 0>>,
                      NoPattern, 0)]

\* the only number of the markup: transform: scale(${scale})
Dom_nums(o) == << o.scale.k * UnitsPerStep >>

DomFixedUnits == 1435
DomFixedBytes == 1449
DomTags == 28

\* FigmaSimulator.render(props): exportDate is new Date().toISOString() and
\* every entry of _internalCache carries Date.now()
FigmaSimulator_render(now, props) ==
  IF props.t = "null"
  THEN Thrown("figma", "TypeError", props, NumArg(ScaleDen))
  ELSE MkOut("figma", "figma", "", props, NumArg(ScaleDen), <<>>, <<>>, <<>>,
             <<0, 0>>, NoPattern, now)

\* the JSON without the texts of props and without the timestamps
FigmaFixedUnits == 17842
FigmaFixedBytes == 17856
FigmaArtboardUnits == 13
IsoDateLength == 24
DateNowDigits == 13
FigmaCacheEntries == 100

-----------------------------------------------------------------------------
(* The output string of a render call                                      *)

TextUnits(t) == StrLength(ToUnits(t))
TextBytes(t) == BlobSize(ToUnits(t))

\* the numbers interpolated into the output
Nums(o) ==
  CASE o.path = "stack"  -> Stack_nums(o)
    [] o.path = "upload" -> Upload_nums(o)
    [] o.path = "idcard" -> IdCard_nums(o)
    [] o.path = "dom"    -> Dom_nums(o)
    [] OTHER             -> <<>>

\* the texts interpolated into the output, each with the length and the byte
\* size of the default it falls back to
Texts(o) ==
  LET p == OrDefaultProps(o.props)
      T(given, units, bytes) == [given |-> given, units |-> units, bytes |-> bytes]
      title == T(p.title, DefaultTitleUnits, DefaultTitleBytes)
      desc  == T(p.description, DefaultDescUnits, DefaultDescBytes)
      upTitle == T(p.title, UploadTitleUnits, UploadTitleBytes)
  IN CASE o.path = "stack"  -> << title, desc >>
       [] o.path = "dom"    -> << title, desc >>
       [] o.path = "upload" -> << upTitle, upTitle,
                                  T(Or(p.subtitle, p.description), UploadDescUnits, UploadDescBytes),
                                  T(p.buttonText, UploadButtonUnits, UploadButtonBytes) >>
       [] o.path = "idcard" -> << T(p.title, IdCardTitleUnits, IdCardTitleBytes) >>
       [] o.path = "figma"  -> << T(p.title, FigmaArtboardUnits, FigmaArtboardUnits),
                                  title, desc >>
       [] OTHER             -> <<>>

\* the timestamps interpolated into the output
Stamps(o) == IF o.path = "figma" THEN << o.stamp, o.stamp >> ELSE <<>>

\* given || placeholder
Emitted(t) ==
  IF Truthy(t.given) THEN [placeholder |-> FALSE, text |-> t.given]
  ELSE [placeholder |-> TRUE, text |-> <<>>]

\* The string itself: two outputs are the same string exactly when they come
\* from the same template with the same values interpolated.
Content(o) ==
  [path  |-> o.path,
   nums  |-> Nums(o),
   texts |-> [i \in 1..Len(Texts(o)) |-> Emitted(Texts(o)[i])],
   stamps |-> Stamps(o)]

RECURSIVE SumTextUnits(_)
SumTextUnits(ts) ==
  IF ts = <<>> THEN 0
  ELSE (IF Truthy(Head(ts).given) THEN TextUnits(Head(ts).given) ELSE Head(ts).units)
       + SumTextUnits(Tail(ts))

RECURSIVE SumTextBytes(_)
SumTextBytes(ts) ==
  IF ts = <<>> THEN 0
  ELSE (IF Truthy(Head(ts).given) THEN TextBytes(Head(ts).given) ELSE Head(ts).bytes)
       + SumTextBytes(Tail(ts))

FixedUnits(o) ==
  CASE o.path = "stack"  -> StackFixedUnits
    [] o.path = "upload" -> UploadFixedUnits
    [] o.path = "idcard" -> IdCardFixedUnits
    [] o.path = "dom"    -> DomFixedUnits
    [] o.path = "figma"  -> FigmaFixedUnits + IsoDateLength + FigmaCacheEntries * DateNowDigits
    [] OTHER             -> 0

FixedBytes(o) ==
  CASE o.path = "stack"  -> StackFixedBytes
    [] o.path = "upload" -> UploadFixedBytes
    [] o.path = "idcard" -> IdCardFixedBytes
    [] o.path = "dom"    -> DomFixedBytes
    [] o.path = "figma"  -> FigmaFixedBytes + IsoDateLength + FigmaCacheEntries * DateNowDigits
    [] OTHER             -> 0

\* output.length: UTF-16 code units (a lower bound for the ID card, see NumLen)
OutLength(o) == FixedUnits(o) + SumNumLen(Nums(o)) + SumTextUnits(Texts(o))

\* new Blob([output]).size
OutBytes(o) == FixedBytes(o) + SumNumLen(Nums(o)) + SumTextBytes(Texts(o))

\* (output.match(/<[^>]+>/g) || []).length
OutTags(o) ==
  CASE o.path = "stack"  -> StackTags
    [] o.path = "upload" -> UploadTags
    [] o.path = "idcard" -> IdCardTags
    [] o.path = "dom"    -> DomTags
    [] OTHER             -> 0

\* whether the output includes 'stroke-dasharray', 'transform' or 'viewBox'
OutHasFormulas(o) == o.path \in {"stack", "upload", "idcard", "dom"}

\* every linear dimension of a vector output
Dims(o) ==
  CASE o.path = "stack"  -> Stack_dims(o)
    [] o.path = "upload" -> Upload_nums(o)
    [] o.path = "idcard" -> IdCard_dims(o)
    [] OTHER             -> <<>>

-----------------------------------------------------------------------------
(* Inputs                                                                  *)

\* valid scales are 1/ScaleDen and 1, 2, ..., MaxScale
MaxScale == 2
MaxClock == 2
MaxRenders == 2
MaxAdvances == 2

ValidScales == {NumArg(1)} \cup {NumArg(i * ScaleDen) : i \in 1..MaxScale}
One == NumArg(ScaleDen)

Heights == {Lit(-8), Lit(24)}
Gaps == {0, Lit(8)}
Tilts == {<<0, 0>>, <<-2 * Q, Q \div 2>>}

ZeroStats == [rendersCount |-> 0, cacheHits |-> 0, cacheMisses |-> 0]
FreshLog == [valid |-> TRUE, calls |-> <<>>]
IdleBench == [pc |-> "idle", fn |-> "none", props |-> DefaultProps, count |-> 0,
              i |-> 0, totalSize |-> 0, start |-> 0, begun |-> 0, returned |-> 0]
NoResult == [kind |-> "none"]
NoAnalysis == [kind |-> "none"]

\* the renderers runBenchmark measures, and the entries it stores for each
Renderers == <<"vector", "dom", "figma">>
NoEntry == [run |-> 0, size |-> 0]

NoEfficiency == [run |-> 0, sizeVsDom |-> [num |-> 0, den |-> 1],
                 sizeVsFigma |-> [num |-> 0, den |-> 1]]

\* this.results = { vector: {}, dom: {}, figma: {} }; run counts the
\* runBenchmark calls made
NoResults == [run |-> 0,
              single |-> [r \in {"vector", "dom", "figma"} |-> NoEntry],
              stress |-> [r \in {"vector", "dom", "figma"} |-> NoEntry],
              efficiency |-> NoEfficiency]

\* a button of the page: its disabled flag and which of its labels it shows
Button(disabled, text) == [disabled |-> disabled, text |-> text]

\* the two ChaosMode instances app.js and the ChaosOrchestrator each create
Instances == {"dom", "vector"}

\* new ChaosMode(): no particles, no frame requested, not running.  frames
\* are the requestAnimationFrame callbacks not yet run or cancelled, each
\* named by the animate closure that requested it (a closure has at most one
\* frame outstanding) with the width and height the closure captured;
\* animate counts the closures start has created, updatedBy is the closure
\* whose run last moved the particles, call the last method that ran
NewChaosMode == [isRunning |-> FALSE,
                 animationFrameId |-> 0,
                 frames |-> {},
                 animate |-> 0,
                 updatedBy |-> 0,
                 particleSize |-> 3,
                 particles |-> <<>>,
                 call |-> [fn |-> "constructor", width |-> 0, height |-> 0]]

\* app.js before any click: chaosRunning is false, no timer is set and no
\* startSequentialChaos call is waiting; waiting counts the calls suspended
\* at the await after each of the three steps
IdleSequence == [chaosRunning |-> FALSE,
                 chaosButton |-> Button(FALSE, "label"),
                 stopButton |-> Button(FALSE, "label"),
                 timers |-> 0,
                 waiting |-> [s \in {"dom", "vector", "figma"} |-> 0]]

\* new ChaosOrchestrator(): not running, no test chosen; timers are the
\* restartTest timeouts not yet expired, waiting counts the
\* startSequentialTest calls suspended in the DOM test (its recorder
\* interval still set), in the pause between the tests and in the vector test
NewOrchestrator == [isRunning |-> FALSE,
                    currentTest |-> "null",
                    startButton |-> Button(FALSE, "label"),
                    stopButton |-> Button(FALSE, "label"),
                    particleSize |-> 4,
                    speed |-> 1,
                    timers |-> 0,
                    waiting |-> [s \in {"dom", "delay", "vector"} |-> 0]]

\* nothing of the chaos tests has started
IdleChaos == [mode |-> [i \in Instances |-> NewChaosMode],
              seq |-> IdleSequence,
              orch |-> NewOrchestrator]

\* the click handlers of app.js that render on the shared VectorRenderer
Handlers == {"bench", "stress", "resp"}

\* a handler that is not running: pc is its position, left the vector
\* renders it has still to make, step its position inside a render, ys and
\* pre the cursor values that render has seen
IdleHandler == [pc |-> "idle", left |-> 0, step |-> 0, ys |-> <<>>, pre |-> 0]

\* the page after the script has run: no handler started, every button enabled
IdleApp == [running |-> {},
            h |-> [x \in Handlers |-> IdleHandler],
            btn |-> [x \in Handlers |-> Button(FALSE, "label")],
            timer |-> FALSE,
            currentScale |-> NumArg(ScaleDen)]

-----------------------------------------------------------------------------
(* The renderers: one instance of one class                                *)

InitCommon ==
  /\ currentY = 0
  /\ tiltX = 0
  /\ tiltY = 0
  /\ patternCache = <<>>
  /\ stats = ZeroStats
  /\ styleInjected = FALSE
  /\ clock = 0
  /\ out = NoOut
  /\ memo = NoOut
  /\ advLog = FreshLog
  /\ bench = IdleBench
  /\ benchLog = <<>>
  /\ result = NoResult
  /\ analysis = NoAnalysis
  /\ app = IdleApp
  /\ results = NoResults
  /\ chaos = IdleChaos

InitRender ==
  /\ cls \in {"stack", "v2", "dom", "figma"}
  /\ InitCommon

Called(o, fn) == [o EXCEPT !.fn = fn, !.pre = currentY]

OtherVars == <<clock, memo, benchVars, analysis, app, chaos>>

\* render(props, scale) of the stack-layout class
Stack_Render(props, sc) ==
  /\ cls = "stack"
  /\ LET r == Stack_render(currentY, props, sc)
     IN /\ currentY' = r.y
        /\ out' = Called(r.out, "render")
  /\ advLog' = [valid |-> FALSE, calls |-> <<>>]
  /\ UNCHANGED <<cls, tiltX, tiltY, patternCache, stats, styleInjected, OtherVars>>

\* a call of a method of the 2.0.0 class: r is what the method computed
V2Call(r, fn) ==
  /\ cls = "v2"
  /\ currentY' = r.y
  /\ patternCache' = r.cache
  /\ stats' = r.stats
  /\ out' = Called(r.out, fn)
  /\ advLog' = IF r.didReset THEN FreshLog ELSE advLog
  /\ UNCHANGED <<cls, tiltX, tiltY, styleInjected, OtherVars>>

Render(props, sc) ==
  /\ stats.rendersCount < MaxRenders
  /\ V2Call(render(currentY, <<tiltX, tiltY>>, patternCache, stats, props, sc), "render")

RenderDiiaIDCard(props, sc) ==
  /\ stats.rendersCount < MaxRenders
  /\ V2Call(renderDiiaIDCard(currentY, <<tiltX, tiltY>>, patternCache, stats, props, sc),
            "renderDiiaIDCard")

RenderUploadScreen(props, sc) ==
  V2Call(renderUploadScreen(currentY, <<tiltX, tiltY>>, patternCache, stats, props, sc),
         "renderUploadScreen")

\* setTilt(x, y)
SetTilt(x, y) ==
  /\ cls = "v2"
  /\ tiltX' = _clamp(x, -Q, Q)
  /\ tiltY' = _clamp(y, -Q, Q)
  /\ UNCHANGED <<cls, currentY, patternCache, stats, styleInjected, out, advLog, OtherVars>>

\* clearCache()
ClearCache ==
  /\ cls = "v2"
  /\ patternCache' = <<>>
  /\ stats' = [stats EXCEPT !.cacheHits = 0, !.cacheMisses = 0]
  /\ UNCHANGED <<cls, currentY, tiltX, tiltY, styleInjected, out, advLog, OtherVars>>

\* advanceY(height, gap) of either VectorRenderer class
AdvanceY(height, gap) ==
  /\ cls \in {"stack", "v2"}
  /\ Len(advLog.calls) < MaxAdvances
  /\ currentY' = advanceY(currentY, height, gap)
  /\ out' = Called(MkOut(cls, "advanceY", "", DefaultProps, NumArg(0), <<currentY'>>,
                         <<height, gap>>, <<>>, <<0, 0>>, NoPattern, 0), "advanceY")
  /\ advLog' = [advLog EXCEPT !.calls = Append(@, <<height, gap>>)]
  /\ UNCHANGED <<cls, tiltX, tiltY, patternCache, stats, styleInjected, OtherVars>>

\* reset() of either VectorRenderer class
Reset ==
  /\ cls \in {"stack", "v2"}
  /\ currentY' = reset
  /\ out' = Called(MkOut(cls, "reset", "", DefaultProps, NumArg(0), <<>>, <<>>, <<>>,
                         <<0, 0>>, NoPattern, 0), "reset")
  /\ advLog' = FreshLog
  /\ UNCHANGED <<cls, tiltX, tiltY, patternCache, stats, styleInjected, OtherVars>>

\* DomRenderer.render(props, scale)
Dom_Render(props, sc) ==
  /\ cls = "dom"
  /\ LET r == DomRenderer_render(styleInjected, props, sc)
     IN /\ styleInjected' = r.styleInjected
        /\ out' = Called(r.out, "render")
  /\ UNCHANGED <<cls, currentY, tiltX, tiltY, patternCache, stats, advLog, OtherVars>>

\* FigmaSimulator.render(props), called as render(props, scale) like the other
\* renderers: the second argument is ignored
Figma_Render(props, sc) ==
  /\ cls = "figma"
  /\ out' = Called([FigmaSimulator_render(clock, props) EXCEPT !.scale = sc], "render")
  /\ UNCHANGED <<cls, currentY, tiltX, tiltY, patternCache, stats, styleInjected,
                 advLog, OtherVars>>

\* time passes
Tick ==
  /\ clock < MaxClock
  /\ clock' = clock + 1
  /\ UNCHANGED <<rendererVars, benchVars, analysis, app, chaos>>

\* the caller keeps the string a render returned
Remember ==
  /\ IsRender(out)
  /\ out.fn = "render"
  /\ memo # out
  /\ memo' = out
  /\ UNCHANGED <<cls, currentY, tiltX, tiltY, patternCache, stats, styleInjected,
                 clock, out, advLog, benchVars, analysis, app, chaos>>

RenderProps == {DefaultProps, PropsObj(TxtNone, TxtDiia, TxtNone, TxtNone),
                PropsObj(TxtHi, TxtNone, TxtNone, TxtNone), NullProps}
RenderScales == {NumArg(1), One, NumArg(2 * ScaleDen), NumArg(0)}

NextRender ==
  \/ \E props \in RenderProps, sc \in RenderScales : Stack_Render(props, sc)
  \/ \E props \in RenderProps, sc \in RenderScales \cup {StrArg} : Render(props, sc)
  \/ \E props \in RenderProps, sc \in RenderScales : Dom_Render(props, sc)
  \/ \E props \in RenderProps : Figma_Render(props, One)
  \/ \E t \in Tilts : SetTilt(t[1], t[2])
  \/ ClearCache
  \/ Tick
  \/ Remember

\* one renderer instance, its render method, the clock and a caller that keeps
\* an earlier output
SpecRender == InitRender /\ [][NextRender]_vars

InitLayout ==
  /\ cls \in {"stack", "v2"}
  /\ InitCommon

LayoutProps == {DefaultProps, PropsObj(TxtNone, TxtDiia, TxtNone, TxtNone), NullProps,
                NumberProps}
LayoutScales == ValidScales \cup {NumArg(0), NumArg(-ScaleDen)}

NextLayout ==
  \/ \E props \in LayoutProps, sc \in LayoutScales : Stack_Render(props, sc)
  \/ \E props \in LayoutProps, sc \in LayoutScales \cup {StrArg} : Render(props, sc)
  \/ \E props \in LayoutProps, sc \in LayoutScales : RenderDiiaIDCard(props, sc)
  \/ \E props \in LayoutProps, sc \in LayoutScales : RenderUploadScreen(props, sc)
  \/ \E h \in Heights, g \in Gaps : AdvanceY(h, g)
  \/ Reset

\* one VectorRenderer instance and every method that reads or writes its cursor
SpecLayout == InitLayout /\ [][NextLayout]_vars

\* scales on both sides of every test of _validateScale, and a string
ScaleArgs == {NumArg(-ScaleDen), NumArg(0), NumArg(1), One, NumArg(ScaleLimit * ScaleDen),
              NumArg(ScaleLimit * ScaleDen + 1)}
ScaleProps == {DefaultProps, PropsObj(TxtNone, TxtDiia, TxtNone, TxtNone), NullProps,
               NumberProps}

NextScale ==
  \/ \E props \in ScaleProps, sc \in ScaleArgs : Stack_Render(props, sc)
  \/ \E props \in ScaleProps, sc \in ScaleArgs \cup {StrArg} : Render(props, sc)
  \/ \E props \in ScaleProps, sc \in ScaleArgs \cup {StrArg} : RenderDiiaIDCard(props, sc)
  \/ \E props \in ScaleProps, sc \in ScaleArgs \cup {StrArg} : RenderUploadScreen(props, sc)
  \/ \E props \in ScaleProps, sc \in ScaleArgs : Dom_Render(props, sc)
  \/ \E props \in ScaleProps, sc \in ScaleArgs : Figma_Render(props, sc)

\* one renderer instance and every public render path, at any scale argument
SpecScale == InitRender /\ [][NextScale]_vars

\* props with every optional text absent, empty or given, and no props
OptionalTexts == {TxtNone, TxtEmpty, TxtDiia}
OptionalProps ==
  {PropsObj(ti, de, bt, su) : ti \in OptionalTexts, de \in OptionalTexts,
                              bt \in OptionalTexts, su \in OptionalTexts}
  \cup {OmittedProps}
PropsScales == {NumArg(1), One}

NextProps ==
  \/ \E props \in OptionalProps, sc \in PropsScales : Stack_Render(props, sc)
  \/ \E props \in OptionalProps, sc \in PropsScales : Render(props, sc)
  \/ \E props \in OptionalProps, sc \in PropsScales : RenderDiiaIDCard(props, sc)
  \/ \E props \in OptionalProps, sc \in PropsScales : RenderUploadScreen(props, sc)
  \/ \E props \in OptionalProps, sc \in PropsScales : Dom_Render(props, sc)
  \/ \E props \in OptionalProps, sc \in PropsScales : Figma_Render(props, sc)

\* one renderer instance and every public render path, at any optional props
SpecProps == InitRender /\ [][NextProps]_vars

\* tilt arguments below, at, inside and above the bounds -1 and 1
TiltValues == {-2 * Q, -Q, 0, Q \div 2, 2 * Q}
CardProps == {DefaultProps, NullProps, NumberProps}
CardScales == {One, NumArg(MaxScale * ScaleDen), NumArg(0), NumArg(ScaleLimit * ScaleDen + 1),
               StrArg}

InitCard ==
  /\ cls = "v2"
  /\ InitCommon

NextCard ==
  \/ \E x \in TiltValues, y \in TiltValues : SetTilt(x, y)
  \/ \E props \in CardProps, sc \in CardScales : RenderDiiaIDCard(props, sc)
  \/ ClearCache

\* one 2.0.0 renderer: its tilt, and the ID card rendered at valid and at
\* invalid arguments
SpecCard == InitCard /\ [][NextCard]_vars

\* the widths of the patterns asked for (as many misses are counted before
\* the cache is cleared), and the hits counted
MaxWidth == 53
MaxHits == 2
\* the cache sizes at which a second height and a second scale are asked for
MaxOddAt == 1

\* generateSecurityPattern(width, height, scale) called on the renderer
GenerateSecurityPattern(width, height, sc) ==
  /\ cls = "v2"
  /\ stats.cacheHits < MaxHits
  /\ stats.cacheMisses < MaxWidth
  /\ LET g == generateSecurityPattern(patternCache, stats, width, height, sc.k)
     IN /\ patternCache' = g.cache
        /\ stats' = g.stats
        /\ out' = [MkOut("v2", "pattern", "", DefaultProps, sc, <<>>, <<width, height>>,
                         <<>>, <<0, 0>>, g.pattern, 0)
                     EXCEPT !.fn = "generateSecurityPattern", !.pre = currentY]
  /\ UNCHANGED <<cls, currentY, tiltX, tiltY, styleInjected, advLog, OtherVars>>

\* the widths asked for next: the one after the newest entry (a miss), the
\* oldest and the newest entry (hits), and the one before the oldest entry
\* (the entry evicted last)
NextWidths ==
  IF patternCache = <<>> THEN {1}
  ELSE LET oldest == patternCache[1].key.w \div Q
           newest == patternCache[Len(patternCache)].key.w \div Q
       IN {n \in {oldest - 1, oldest, newest, newest + 1} : n >= 1 /\ n <= MaxWidth}

NextCache ==
  \/ \E n \in NextWidths : GenerateSecurityPattern(Lit(n), Lit(1), One)
  \/ \E h \in {1, 2}, sc \in {One, NumArg(2 * ScaleDen)} :
       /\ Len(patternCache) <= MaxOddAt
       /\ GenerateSecurityPattern(Lit(1), Lit(h), sc)
  \/ \E sc \in {One, NumArg(2 * ScaleDen)} :
       /\ Len(patternCache) <= MaxOddAt
       /\ RenderDiiaIDCard(DefaultProps, sc)
  \/ ClearCache

\* one 2.0.0 renderer and its pattern cache, filled past its limit
SpecCache == InitCard /\ [][NextCache]_vars

-----------------------------------------------------------------------------
(* BenchmarkEngine                                                         *)

\* a string a render function returned: a text given by its code points, or
\* the output of a renderer
Text(cps) == [kind |-> "text", cps |-> cps]
Rendered(o) == [kind |-> "render", out |-> o]

\* content.length
ContentLength(content) ==
  IF content.kind = "text" THEN StrLength(ToUnits(content.cps))
  ELSE OutLength(content.out)

\* a payload that would count UTF-16 code units
calculatePayload_Length(content) == ContentLength(content)

\* calculatePayload(content): new Blob([content]).size
calculatePayload(content) ==
  IF content.kind = "text" THEN BlobSize(ToUnits(content.cps))
  ELSE OutBytes(content.out)

\* a quotient over one more than the divisor
Div_OffByOne(a, b) == [num |-> a, den |-> b + 1]

\* a / b, kept as the fraction
Div(a, b) == [num |-> a, den |-> b]

\* ten bytes: the digits 0-9, and five Cyrillic letters
Fixed10Ascii == [n \in 1..10 |-> 47 + n]
Fixed10Cyrillic == [n \in 1..5 |-> 1071 + n]
\* U+1F600, a surrogate pair in UTF-16
TxtAstral == <<128512>>

\* "throws" raises at every call, "throwsSecond" at its second call
RenderFns == {"fixed10", "cyrillic10", "astral", "alternating", "dom", "throws",
              "throwsSecond"}

\* renderFn(props): the n-th call (n from 0) of the render function fn; threw
\* tells that the call raised instead of returning
renderFn(fn, props, n, injected) ==
  CASE fn = "fixed10"     -> [styleInjected |-> injected, threw |-> FALSE,
                              output |-> Text(Fixed10Ascii)]
    [] fn = "cyrillic10"  -> [styleInjected |-> injected, threw |-> FALSE,
                              output |-> Text(Fixed10Cyrillic)]
    [] fn = "astral"      -> [styleInjected |-> injected, threw |-> FALSE,
                              output |-> Text(TxtAstral)]
    [] fn = "alternating" -> [styleInjected |-> injected, threw |-> FALSE,
                              output |-> Text(IF n % 2 = 0 THEN TxtHi ELSE TxtDiia)]
    [] fn = "dom"         ->
         LET r == DomRenderer_render(injected, props, One)
         IN [styleInjected |-> r.styleInjected, threw |-> FALSE,
             output |-> Rendered(r.out)]
    [] fn = "throws"      -> [styleInjected |-> injected, threw |-> TRUE,
                              output |-> Text(<<>>)]
    [] fn = "throwsSecond" -> [styleInjected |-> injected, threw |-> n = 1,
                               output |-> Text(TxtHi)]

\* the call ended by an exception of renderFn: nothing is returned
Raised(by, fn) == [kind |-> "thrown", by |-> by, fn |-> fn]

\* a loop that would catch the exception and go on with the next iteration
stressTest_onThrow_Continue(b) == [b EXCEPT !.pc = "loop", !.i = @ + 1]

\* renderFn raises inside the loop: nothing catches it, stressTest is left
stressTest_onThrow(b) == [b EXCEPT !.pc = "idle"]

MaxCount == 3
\* the count of the stress runs of the application and of the scenario
ScenarioCount == 100
Counts == (-1..MaxCount) \cup {ScenarioCount}
BenchProps == {DefaultProps, PropsObj(TxtDiia, TxtNone, TxtNone, TxtNone)}

\* a loop test that would let one more iteration through
stressTest_loop_Inclusive(i, count) == i <= count

\* for (let i = 0; i < count; i++)
stressTest_loop(i, count) == i < count

InitBench ==
  /\ cls = "dom"
  /\ InitCommon

BenchUnchanged == <<cls, currentY, tiltX, tiltY, patternCache, stats, out, memo, advLog,
                    analysis, app, results, chaos>>

\* measureRenderSpeed(renderFn, props); dt is the time the call took
MeasureRenderSpeed(fn, props, dt) ==
  /\ bench.pc = "idle"
  /\ clock + dt <= MaxClock
  /\ LET jsStart == clock
         r == renderFn(fn, props, 0, styleInjected)
         jsEnd == clock + dt
     IN /\ styleInjected' = r.styleInjected
        /\ IF r.threw
           THEN /\ result' = Raised("measureRenderSpeed", fn)
                /\ UNCHANGED clock
           ELSE /\ clock' = jsEnd
                /\ result' = [kind |-> "measure", fn |-> fn, time |-> jsEnd - jsStart,
                              output |-> r.output, size |-> calculatePayload(r.output)]
  /\ UNCHANGED <<BenchUnchanged, bench, benchLog>>

\* stressTest(renderFn, count, props) up to the loop
StressTest(fn, count, props) ==
  /\ bench.pc = "idle"
  /\ bench' = [pc |-> "loop", fn |-> fn, props |-> props, count |-> count, i |-> 0,
               totalSize |-> 0, start |-> clock, begun |-> 0, returned |-> 0]
  /\ benchLog' = <<>>
  /\ result' = NoResult
  /\ UNCHANGED <<BenchUnchanged, styleInjected, clock>>

\* the loop test passes and renderFn(props) is called
StressCall ==
  /\ bench.pc = "loop"
  /\ stressTest_loop(bench.i, bench.count)
  /\ bench' = [bench EXCEPT !.pc = "call", !.begun = @ + 1]
  /\ UNCHANGED <<BenchUnchanged, styleInjected, clock, benchLog, result>>

\* renderFn returns: totalSize += this.calculatePayload(output); i++, or
\* renderFn raises
StressReturn ==
  /\ bench.pc = "call"
  /\ LET r == renderFn(bench.fn, bench.props, bench.returned, styleInjected)
     IN /\ styleInjected' = r.styleInjected
        /\ IF r.threw
           THEN /\ bench' = stressTest_onThrow(bench)
                /\ result' = Raised("stressTest", bench.fn)
                /\ UNCHANGED benchLog
           ELSE /\ bench' = [bench EXCEPT !.pc = "loop", !.returned = @ + 1, !.i = @ + 1,
                                          !.totalSize = @ + calculatePayload(r.output)]
                /\ benchLog' = Append(benchLog, r.output)
                /\ UNCHANGED result
  /\ UNCHANGED <<BenchUnchanged, clock>>

\* the loop test fails: the result is returned
StressEnd ==
  /\ bench.pc = "loop"
  /\ ~stressTest_loop(bench.i, bench.count)
  /\ LET end == clock
     IN result' = [kind |-> "stress", fn |-> bench.fn,
                   totalTime |-> end - bench.start,
                   avgTime |-> Div(end - bench.start, bench.count),
                   totalSize |-> bench.totalSize,
                   avgSize |-> Div(bench.totalSize, bench.count),
                   count |-> bench.count]
  /\ bench' = [bench EXCEPT !.pc = "idle"]
  /\ UNCHANGED <<BenchUnchanged, styleInjected, clock, benchLog>>

\* the runBenchmark calls of a behaviour
MaxRuns == 2

\* the render functions handed to runBenchmark as renderers.vector, .dom, .figma
RunFns == {"fixed10", "dom", "throws", "throwsSecond"}

\* the steps of runBenchmark in their order: the three single renders, then
\* the three stress runs
Slots == << <<"single", 1>>, <<"single", 2>>, <<"single", 3>>,
            <<"stress", 1>>, <<"stress", 2>>, <<"stress", 3>> >>

\* the byte sizes of the calls lo..hi of a render function together
RECURSIVE StressSum(_, _, _, _)
StressSum(fn, props, lo, hi) ==
  IF lo > hi THEN 0
  ELSE IF lo = hi THEN calculatePayload(renderFn(fn, props, lo, TRUE).output)
  ELSE LET mid == (lo + hi) \div 2
       IN StressSum(fn, props, lo, mid) + StressSum(fn, props, mid + 1, hi)

\* whether the i-th step of runBenchmark ends by an exception: a renderer is
\* called once by its single render and ScenarioCount times by its stress run
SlotThrows(fns, props, i) ==
  IF Slots[i][1] = "single" THEN renderFn(fns[Slots[i][2]], props, 0, TRUE).threw
  ELSE \E n \in 1..ScenarioCount : renderFn(fns[Slots[i][2]], props, n, TRUE).threw

\* the first step that throws, Len(Slots) + 1 when none does
FirstThrow(fns, props) ==
  IF \E i \in 1..Len(Slots) : SlotThrows(fns, props, i)
  THEN CHOOSE i \in 1..Len(Slots) :
         SlotThrows(fns, props, i) /\ \A j \in 1..(i - 1) : ~SlotThrows(fns, props, j)
  ELSE Len(Slots) + 1

\* runBenchmark(renderers, props): this.results after the call; every step
\* before the first one that throws has stored its entry, calculateEfficiency
\* runs when none throws
runBenchmark(res, fns, props) ==
  LET run == res.run + 1
      t == FirstThrow(fns, props)
      single(j) == [run |-> run,
                    size |-> calculatePayload(renderFn(fns[j], props, 0, TRUE).output)]
      stress(j) == [run |-> run, size |-> StressSum(fns[j], props, 1, ScenarioCount)]
  IN [run |-> run,
      single |-> [r \in {"vector", "dom", "figma"} |->
                    LET j == CHOOSE j \in 1..3 : Renderers[j] = r
                    IN IF j < t THEN single(j) ELSE res.single[r]],
      stress |-> [r \in {"vector", "dom", "figma"} |->
                    LET j == CHOOSE j \in 1..3 : Renderers[j] = r
                    IN IF 3 + j < t THEN stress(j) ELSE res.stress[r]],
      efficiency |-> IF t > Len(Slots)
                     THEN [run |-> run,
                           sizeVsDom |-> Div(single(2).size, single(1).size),
                           sizeVsFigma |-> Div(single(3).size, single(1).size)]
                     ELSE res.efficiency]

\* benchmarkEngine.runBenchmark({vector, dom, figma}, props)
RunBenchmark(fns, props) ==
  /\ bench.pc = "idle"
  /\ results.run < MaxRuns
  /\ results' = runBenchmark(results, fns, props)
  /\ result' = IF FirstThrow(fns, props) <= Len(Slots)
               THEN Raised("runBenchmark", fns[Slots[FirstThrow(fns, props)][2]])
               ELSE [kind |-> "results", run |-> results.run + 1]
  /\ styleInjected' = (styleInjected \/ \E j \in 1..3 : fns[j] = "dom")
  /\ UNCHANGED <<cls, currentY, tiltX, tiltY, patternCache, stats, out, memo, advLog,
                 analysis, app, chaos, clock, bench, benchLog>>

NextRun ==
  \/ \E v \in RunFns, d \in RunFns, f \in RunFns : RunBenchmark(<<v, d, f>>, DefaultProps)
  \/ \E fn \in RunFns : MeasureRenderSpeed(fn, DefaultProps, 0)

\* one BenchmarkEngine and the runs of its whole suite
SpecRun == InitBench /\ [][NextRun]_vars

NextBench ==
  \/ \E fn \in RenderFns, props \in BenchProps, dt \in 0..MaxClock :
       MeasureRenderSpeed(fn, props, dt)
  \/ \E fn \in RenderFns, count \in Counts, props \in BenchProps :
       StressTest(fn, count, props)
  \/ StressCall
  \/ StressReturn
  \/ StressEnd
  \/ Tick

\* one BenchmarkEngine, the render functions handed to it, and the clock
SpecBench == InitBench /\ [][NextBench]_vars

-----------------------------------------------------------------------------
(* ExportEngine: the friendliness score                                    *)

Min(a, b) == IF a < b THEN a ELSE b
Max(a, b) == IF a > b THEN a ELSE b

\* a quotient that would be rounded down
CeilQuarter_Floor(n) == n \div 4

\* Math.ceil(n / 4)
CeilQuarter(n) == (n + 3) \div 4

\* the code units of '<' and '>'
Lt == 60
Gt == 62

\* (content.match(/<[^>]+>/g) || []).length from position i on: a match
\* starts at a '<' that is followed by a unit other than '>' and, later, by a
\* '>'; it ends at the first such '>', and the search goes on behind it
RECURSIVE MatchCount(_, _)
MatchCount(us, i) ==
  IF i > Len(us) THEN 0
  ELSE IF /\ us[i] = Lt
          /\ i + 1 <= Len(us)
          /\ us[i + 1] # Gt
          /\ \E j \in (i + 2)..Len(us) : us[j] = Gt
       THEN LET j == CHOOSE j \in (i + 2)..Len(us) :
                       us[j] = Gt /\ \A k \in (i + 2)..(j - 1) : us[k] # Gt
            IN 1 + MatchCount(us, j + 1)
       ELSE MatchCount(us, i + 1)

\* content.includes(pat)
Includes(us, pat) ==
  \E i \in 1..(Len(us) - Len(pat) + 1) : SubSeq(us, i, i + Len(pat) - 1) = pat

\* 'stroke-dasharray', 'transform' and 'viewBox'
StrokeDasharray == <<115, 116, 114, 111, 107, 101, 45, 100, 97, 115, 104, 97, 114, 114, 97, 121>>
Transform == <<116, 114, 97, 110, 115, 102, 111, 114, 109>>
ViewBox == <<118, 105, 101, 119, 66, 111, 120>>

\* an analysis that would refuse the empty string
analyzeAIFriendliness_RefuseEmpty(content) ==
  IF ContentLength(content) = 0 THEN [kind |-> "thrown", content |-> content]
  ELSE [kind |-> "analysis", content |-> content,
        estimatedTokens |-> CeilQuarter(ContentLength(content)),
        elementCount |-> 1, hasFormulas |-> FALSE, aiFriendlyScore |-> 100]

\* penalties that would exclude each other: only the larger one is taken
calculateAIScore_sum_ElseIf(tokens, elements, hasFormulas) ==
  LET s2 == IF tokens > 5000 THEN 100 - 30 ELSE IF tokens > 1000 THEN 100 - 20 ELSE 100
      s4 == IF elements > 100 THEN s2 - 25 ELSE IF elements > 50 THEN s2 - 15 ELSE s2
  IN IF hasFormulas THEN s4 + 10 ELSE s4

\* calculateAIScore before the clamp: penalties and reward
calculateAIScore_sum(tokens, elements, hasFormulas) ==
  LET s0 == 100
      s1 == IF tokens > 1000 THEN s0 - 20 ELSE s0
      s2 == IF tokens > 5000 THEN s1 - 30 ELSE s1
      s3 == IF elements > 50 THEN s2 - 15 ELSE s2
      s4 == IF elements > 100 THEN s3 - 25 ELSE s3
  IN IF hasFormulas THEN s4 + 10 ELSE s4

\* a score that would skip the clamp
calculateAIScore_Unclamped(tokens, elements, hasFormulas) ==
  calculateAIScore_sum(tokens, elements, hasFormulas)

\* calculateAIScore(tokens, elements, hasFormulas)
calculateAIScore(tokens, elements, hasFormulas) ==
  Max(0, Min(100, calculateAIScore_sum(tokens, elements, hasFormulas)))

\* analyzeAIFriendliness(content); content is kept with the result
analyzeAIFriendliness(content) ==
  LET estimatedTokens == CeilQuarter(ContentLength(content))
      elementCount == IF content.kind = "render" THEN OutTags(content.out)
                      ELSE MatchCount(ToUnits(content.cps), 1)
      hasFormulas == IF content.kind = "render" THEN OutHasFormulas(content.out)
                     ELSE \/ Includes(ToUnits(content.cps), StrokeDasharray)
                          \/ Includes(ToUnits(content.cps), Transform)
                          \/ Includes(ToUnits(content.cps), ViewBox)
  IN [kind |-> "analysis", content |-> content, estimatedTokens |-> estimatedTokens,
      elementCount |-> elementCount, hasFormulas |-> hasFormulas,
      aiFriendlyScore |-> calculateAIScore(estimatedTokens, elementCount, hasFormulas)]

\* token and element counts on both sides of every threshold
TokenCounts == {0, 1000, 1001, 5000, 5001}
ElementCounts == {0, 50, 51, 100, 101}

ScoreUnchanged == <<rendererVars, clock, benchVars, app, chaos>>

\* analyzeAIFriendliness of the string the renderer returned last
AnalyzeAIFriendliness ==
  /\ IsRender(out)
  /\ analysis' = analyzeAIFriendliness(Rendered(out))
  /\ UNCHANGED ScoreUnchanged

\* the strings handed to the analysis: '', 'a', 'Hi', '012', 'view', 'viewB',
\* U+1F600, '<>', '<i>', '<<i>a>', 'viewBox', 'transform', '0123456789'
AnalysisTexts ==
  {TxtEmpty, <<97>>, TxtHi, <<48, 49, 50>>, SubSeq(ViewBox, 1, 4), SubSeq(ViewBox, 1, 5),
   TxtAstral, <<Lt, Gt>>, <<Lt, 105, Gt>>, <<Lt, Lt, 105, Gt, 97, Gt>>, ViewBox, Transform,
   Fixed10Ascii}

\* analyzeAIFriendliness of a string of the caller's choice
AnalyzeText(cps) ==
  /\ analysis' = analyzeAIFriendliness(Text(cps))
  /\ UNCHANGED ScoreUnchanged

\* calculateAIScore called with counts of its caller's choice
CalculateAIScore(tokens, elements, hasFormulas) ==
  /\ analysis' = [kind |-> "score", estimatedTokens |-> tokens, elementCount |-> elements,
                  hasFormulas |-> hasFormulas,
                  aiFriendlyScore |-> calculateAIScore(tokens, elements, hasFormulas)]
  /\ UNCHANGED ScoreUnchanged

NextScore ==
  \/ \E props \in RenderProps, sc \in RenderScales : Stack_Render(props, sc)
  \/ \E props \in RenderProps, sc \in RenderScales : Render(props, sc)
  \/ \E props \in RenderProps, sc \in RenderScales : Dom_Render(props, sc)
  \/ \E props \in RenderProps : Figma_Render(props, One)
  \/ AnalyzeAIFriendliness
  \/ \E cps \in AnalysisTexts : AnalyzeText(cps)
  \/ \E t \in TokenCounts, e \in ElementCounts, f \in BOOLEAN : CalculateAIScore(t, e, f)

\* one renderer, and the scorer applied to what it returned
SpecScore == InitRender /\ [][NextScore]_vars

-----------------------------------------------------------------------------
(* app.js: the click handlers that render on the shared VectorRenderer     *)

\* testProps: a title and a description
TestProps == PropsObj(TxtDiia, TxtHi, TxtNone, TxtNone)

\* the values the scale slider can hand to currentScale
SliderValues == {NumArg(1), One, NumArg(0)}

\* the breakpoints of the responsive tester
Breakpoints == 4

\* the renders a handler makes on vectorRenderer after its delay: runBenchmark
\* measures one and stresses ScenarioCount, and the handler renders one more
RendersOf(h) ==
  CASE h = "bench"  -> 1 + ScenarioCount + 1
    [] h = "stress" -> ScenarioCount
    [] h = "resp"   -> Breakpoints

\* the scale of the render a handler makes when it has `left` renders to go:
\* currentScale in the last render of the benchmark handler, the default 1
\* everywhere else
ScaleOfRender(h, left) == IF h = "bench" /\ left = 1 THEN app.currentScale ELSE One

\* a catch block that would leave the button as it is
onError_StayDisabled(b) == Button(TRUE, "error")

\* catch (err) { button.textContent = 'Error'; button.disabled = false; }
onError(b) == Button(FALSE, "error")

\* an event loop that would start a task while another one is running
CanDispatch_Preemptive(running) == TRUE

\* the event loop starts a task (a click, a timer, the rest of a handler behind
\* its await) only when no task is running
CanDispatch(running) == running = {}

\* advanceY(height, gap) of the i-th block of the stack-layout render
StackBlock(i, k) ==
  CASE i = 1 -> [height |-> Px(24, k), gap |-> Px(8, k)]
    [] i = 2 -> [height |-> Px(20, k), gap |-> Px(24, k)]
    [] i = 3 -> [height |-> Px(120, k), gap |-> Px(32, k)]

\* a handler leaves the main thread
Left(h) == [app EXCEPT !.running = @ \ {h}, !.h[h] = IdleHandler]

\* an exception reaches the end of the handler h: the catch block of the
\* benchmark and of the stress handler, none in the responsive handler
HandlerThrew(h) ==
  IF h = "resp" THEN Left(h)
  ELSE [Left(h) EXCEPT !.btn[h] = onError(@)]

InitApp ==
  /\ cls \in {"stack", "v2"}
  /\ InitCommon

\* a click on the button of h: the handler runs up to its await
Click(h) ==
  /\ CanDispatch(app.running)
  /\ ~app.btn[h].disabled
  /\ app' = [app EXCEPT !.btn[h] = Button(TRUE, "running"),
                        !.h[h] = [IdleHandler EXCEPT !.pc = "delay"]]
  /\ UNCHANGED <<rendererVars, clock, benchVars, analysis, chaos>>

\* the 100 ms timer has fired and the handler h goes on behind its await
Resume(h) ==
  /\ app.h[h].pc = "delay"
  /\ CanDispatch(app.running)
  /\ app' = [app EXCEPT !.running = @ \cup {h},
                        !.h[h] = [IdleHandler EXCEPT !.pc = "run", !.left = RendersOf(h)]]
  /\ UNCHANGED <<rendererVars, clock, benchVars, analysis, chaos>>

\* the next step of vectorRenderer.render(testProps, scale) in the handler h:
\* of the stack-layout class the reset, each advanceY and the return, of the
\* 2.0.0 class the whole call, which writes no cursor
RenderStep(h) ==
  /\ h \in app.running
  /\ app.h[h].pc = "run"
  /\ app.h[h].left > 0
  /\ LET me == app.h[h]
         sc == ScaleOfRender(h, me.left)
         k  == sc.k
     IN IF cls = "stack"
        THEN /\ IF me.step = 0
                THEN /\ currentY' = Stack_start(currentY, k)
                     /\ advLog' = [valid |-> FALSE, calls |-> <<>>]
                     /\ app' = [app EXCEPT !.h[h].step = 1, !.h[h].pre = currentY,
                                           !.h[h].ys = <<currentY'>>]
                     /\ UNCHANGED out
                ELSE IF me.step < 4
                THEN /\ currentY' = advanceY(currentY, StackBlock(me.step, k).height,
                                             StackBlock(me.step, k).gap)
                     /\ app' = [app EXCEPT !.h[h].step = @ + 1,
                                           !.h[h].ys = Append(@, currentY')]
                     /\ UNCHANGED <<out, advLog>>
                ELSE /\ out' = [MkOut("stack", "stack", "", TestProps, sc, me.ys,
                                      <<Px(24, k), Px(20, k), Px(120, k), Px(56, k)>>,
                                      <<reset>> \o me.ys, <<0, 0>>, NoPattern, 0)
                                  EXCEPT !.fn = "render", !.pre = me.pre]
                     /\ app' = [app EXCEPT !.h[h].step = 0, !.h[h].ys = <<>>,
                                           !.h[h].left = @ - 1]
                     /\ UNCHANGED <<currentY, advLog>>
             /\ UNCHANGED <<patternCache, stats, styleInjected>>
        ELSE LET r == render(currentY, <<tiltX, tiltY>>, patternCache, stats, TestProps, sc)
             IN /\ currentY' = r.y
                /\ patternCache' = r.cache
                /\ stats' = r.stats
                /\ out' = Called(r.out, "render")
                /\ advLog' = IF r.didReset THEN FreshLog ELSE advLog
                /\ IF r.out.path = "throw"
                   THEN /\ app' = HandlerThrew(h)
                        /\ styleInjected' = TRUE
                   ELSE /\ app' = [app EXCEPT !.h[h].left = @ - 1]
                        /\ UNCHANGED styleInjected
  /\ UNCHANGED <<cls, tiltX, tiltY, clock, memo, benchVars, analysis, chaos>>

\* the handler h behind its last vector render: the other renderers have
\* rendered; the benchmark handler analyses the three outputs, updates the
\* page (fault: an update throws) and starts the 2 s timer, the other two
\* handlers enable their button
Finish(h, fault) ==
  /\ h \in app.running
  /\ app.h[h].pc = "run"
  /\ app.h[h].left = 0
  /\ fault => h = "bench"
  /\ styleInjected' = TRUE
  /\ IF h = "bench"
     THEN /\ analysis' = analyzeAIFriendliness(Rendered(FigmaSimulator_render(clock, TestProps)))
          /\ app' = IF fault THEN HandlerThrew(h)
                    ELSE [Left(h) EXCEPT !.btn[h] = Button(TRUE, "complete"),
                                         !.timer = TRUE]
     ELSE /\ app' = [Left(h) EXCEPT !.btn[h] = Button(FALSE, "label")]
          /\ UNCHANGED analysis
  /\ UNCHANGED <<cls, currentY, tiltX, tiltY, patternCache, stats, out, memo, advLog,
                 clock, benchVars, chaos>>

\* the 2 s timer of the benchmark handler fires
TimerFires ==
  /\ app.timer
  /\ CanDispatch(app.running)
  /\ app' = [app EXCEPT !.timer = FALSE, !.btn["bench"] = Button(FALSE, "label")]
  /\ UNCHANGED <<rendererVars, clock, benchVars, analysis, chaos>>

\* the input event of the scale slider
SliderInput(sc) ==
  /\ CanDispatch(app.running)
  /\ sc # app.currentScale
  /\ app' = [app EXCEPT !.currentScale = sc]
  /\ UNCHANGED <<rendererVars, clock, benchVars, analysis, chaos>>

NextApp ==
  \/ \E h \in Handlers : Click(h)
  \/ \E h \in Handlers : Resume(h)
  \/ \E h \in Handlers : RenderStep(h)
  \/ \E h \in Handlers, fault \in BOOLEAN : Finish(h, fault)
  \/ TimerFires
  \/ \E sc \in SliderValues : SliderInput(sc)

\* the page: three buttons, their handlers, the slider and the shared renderer
SpecApp == InitApp /\ [][NextApp]_vars

\* the event loop runs every task that is ready: a timer that has expired
\* fires, and a handler that has started goes on to its end
SpecAppFair ==
  /\ SpecApp
  /\ \A h \in Handlers : SF_vars(Resume(h))
  /\ \A h \in Handlers : WF_vars(RenderStep(h))
  /\ \A h \in Handlers : WF_vars(\E fault \in BOOLEAN : Finish(h, fault))
  /\ SF_vars(TimerFires)

-----------------------------------------------------------------------------
(* ChaosMode (chaos-mode.js): the particles and the animation loop         *)

\* every variable but chaos
ChaosUnchanged == <<rendererVars, clock, benchVars, analysis, app>>

InitChaos ==
  /\ cls = "v2"
  /\ InitCommon

\* one particle stands for the particleCount particles of an instance: the
\* loops over this.particles treat each particle on its own
particleCount == 1

\* the values initParticles can draw: Math.random() * width lies in
\* [0, width) and (Math.random() - 0.5) * maxSpeed in [-1, 1); of the
\* positions the model takes the two ends and the middle
InitialParticles(width, height) ==
  { [i \in 1..particleCount |-> p] :
      p \in [x : {0, width \div 2, width - 1},
             y : {0, height \div 2, height - 1},
             vx : {-1, 0}, vy : {-1, 0}] }

\* the older updateParticles: walls at 0 and at the full width
Bounce_NoRadius(pos, vel, r, size) ==
  LET p == pos + vel
  IN IF p < 0 \/ p > size
       THEN [pos |-> Max(0, Min(size, p)), vel |-> -vel]
       ELSE [pos |-> p, vel |-> vel]

\* one coordinate of updateParticles: move, then bounce off the near wall
\* or else off the far wall, a radius inside the arena
Bounce(pos, vel, r, size) ==
  LET p == pos + vel
  IN IF p < r THEN [pos |-> r, vel |-> -vel]
     ELSE IF p > size - r THEN [pos |-> size - r, vel |-> -vel]
     ELSE [pos |-> p, vel |-> vel]

initParticles(m, ps, width, height) ==
  [m EXCEPT !.particles = ps,
            !.call = [fn |-> "initParticles", width |-> width,
                      height |-> height]]

updateParticles(m, width, height) ==
  [m EXCEPT
     !.particles =
        [i \in DOMAIN m.particles |->
           LET p == m.particles[i]
               bx == Bounce(p.x, p.vx, m.particleSize, width)
               by == Bounce(p.y, p.vy, m.particleSize, height)
           IN [x |-> bx.pos, y |-> by.pos, vx |-> bx.vel, vy |-> by.vel]],
     !.call = [fn |-> "updateParticles", width |-> width,
               height |-> height]]

\* stop(): cancelAnimationFrame removes the frame whose id is stored, if it
\* has not run yet
stop(m) ==
  [m EXCEPT !.isRunning = FALSE,
            !.frames = IF m.animationFrameId # 0
                         THEN {f \in m.frames : f.loop # m.animationFrameId}
                         ELSE m.frames,
            !.animationFrameId = 0]

\* this.animationFrameId = requestAnimationFrame(animate)
requestAnimationFrame(m, f) ==
  [m EXCEPT !.frames = m.frames \union {f},
            !.animationFrameId = f.loop]

\* what the caller's fps callback does when a frame calls it: nothing, or a
\* call of stop, of start, or of stop and then start, on this instance
Callbacks == {"none", "stop", "start", "restart"}

RECURSIVE start(_, _, _, _, _, _)

\* a callback that starts the instance passes a callback that does nothing
fpsCallback(m, cb, f, ps) ==
  CASE cb = "none" -> m
    [] cb = "stop" -> stop(m)
    [] cb = "start" -> start(m, f.mode, f.width, f.height, "none", ps)
    [] cb = "restart" ->
         start(stop(m), f.mode, f.width, f.height, "none", ps)

\* one run of the closure animate that start created: f names the closure
animate(m, f, cb, ps) ==
  IF ~m.isRunning
    THEN m
    ELSE LET u == [updateParticles(m, f.width, f.height)
                     EXCEPT !.updatedBy = f.loop]
         IN requestAnimationFrame(fpsCallback(u, cb, f, ps), f)

\* start(mode, container, width, height, fpsCallback); ps are the particles
\* initParticles draws.  renderVector ends with updateVector, which moves
\* the particles once before the first animate
start(m, mode, width, height, cb, ps) ==
  IF m.isRunning
    THEN m
    ELSE LET f == [loop |-> m.animate + 1, mode |-> mode, width |-> width,
                   height |-> height]
             i == [initParticles(m, ps, width, height)
                     EXCEPT !.isRunning = TRUE, !.animate = f.loop]
             r == IF mode = "dom"
                    THEN i
                    ELSE [updateParticles(i, width, height)
                            EXCEPT !.updatedBy = f.loop]
         IN animate(r, f, cb, ps)

InitParticles(i, width, height) ==
  /\ \E ps \in InitialParticles(width, height) :
       chaos' = [chaos EXCEPT !.mode[i] = initParticles(@, ps, width, height)]
  /\ UNCHANGED ChaosUnchanged

UpdateParticles(i, width, height) ==
  /\ chaos' = [chaos EXCEPT !.mode[i] = updateParticles(@, width, height)]
  /\ UNCHANGED ChaosUnchanged

\* the closures one instance may create in a run of the model
MaxLoops == 3

Start(i, mode, width, height, cb) ==
  /\ chaos.mode[i].animate < MaxLoops
  /\ \E ps \in InitialParticles(width, height) :
       chaos' = [chaos EXCEPT
                   !.mode[i] = start(@, mode, width, height, cb, ps)]
  /\ UNCHANGED ChaosUnchanged

Stop(i) ==
  /\ chaos' = [chaos EXCEPT !.mode[i] = stop(@)]
  /\ UNCHANGED ChaosUnchanged

\* the browser runs a requested frame: the frame is no longer outstanding
\* and its closure runs
AnimationFrame(i, f, cb) ==
  /\ f \in chaos.mode[i].frames
  /\ cb \in {"start", "restart"} => chaos.mode[i].animate < MaxLoops
  /\ \E ps \in InitialParticles(f.width, f.height) :
       chaos' = [chaos EXCEPT
                   !.mode[i] = animate([@ EXCEPT !.frames = @ \ {f}],
                                       f, cb, ps)]
  /\ UNCHANGED ChaosUnchanged

\* the arena of the animation loop's model: a 7 by 7 box leaves the
\* particle of radius 3 the positions 3 and 4
LoopSizes == {<<7, 7>>}

NextLoop ==
  \/ \E mode \in {"dom", "vector"}, wh \in LoopSizes, cb \in Callbacks :
       Start("dom", mode, wh[1], wh[2], cb)
  \/ Stop("dom")
  \/ \E f \in chaos.mode["dom"].frames, cb \in Callbacks :
       AnimationFrame("dom", f, cb)

\* one ChaosMode instance, its callers and the browser's frames
SpecLoop == InitChaos /\ [][NextLoop]_vars

-----------------------------------------------------------------------------
(* ChaosOrchestrator (chaos-orchestrator.js)                               *)

\* the calls and timers that may be outstanding at once in a run of the model
MaxPending == 3

\* the startSequentialTest calls suspended and the restart timers set
PendingTests(o) ==
  o.timers + o.waiting["dom"] + o.waiting["delay"] + o.waiting["vector"]

\* the largest speed of a particle in a run of the model
MaxVelocity == 4

\* applySettings(chaosInstance): the speed multiplier and the particle size
applySettings(o, m) ==
  [m EXCEPT
     !.particles = [i \in DOMAIN m.particles |->
                      [m.particles[i] EXCEPT !.vx = @ * o.speed,
                                             !.vy = @ * o.speed]],
     !.particleSize = o.particleSize,
     !.call = [fn |-> "applySettings", width |-> 0, height |-> 0]]

\* ChaosMode.init(canvas, mode, count), which chaos-mode.js does not define:
\* it prepares the instance and starts nothing
ChaosMode_init(m) ==
  [m EXCEPT !.call = [fn |-> "init", width |-> 0, height |-> 0]]

\* ChaosMode.start() as the orchestrator calls it, without arguments: the
\* test of this instance is active from here until stop()
ChaosMode_start(m) ==
  IF m.isRunning
    THEN m
    ELSE [m EXCEPT !.isRunning = TRUE,
                   !.call = [fn |-> "start", width |-> 0, height |-> 0]]

\* runDOMTest / runVectorTest up to the setInterval: the test is chosen, its
\* instance initialised, set up and started, and the call then waits for
\* the recorder's last tick
runTest(c, test) ==
  [c EXCEPT
     !.orch.currentTest = test,
     !.mode[test] = ChaosMode_start(applySettings(c.orch, ChaosMode_init(@))),
     !.orch.waiting[test] = @ + 1]

\* startSequentialTest up to its first await
startSequentialTest(c) ==
  IF c.orch.isRunning
    THEN c
    ELSE runTest([c EXCEPT !.orch.isRunning = TRUE,
                           !.orch.startButton.disabled = TRUE,
                           !.orch.stopButton.disabled = FALSE],
                 "dom")

stopTest(c) ==
  [c EXCEPT !.mode["dom"] = stop(@),
            !.mode["vector"] = stop(@),
            !.orch.isRunning = FALSE,
            !.orch.startButton.disabled = FALSE,
            !.orch.stopButton.disabled = TRUE]

\* restartTest(): the new start is put on a 500 ms timer
restartTest(c) ==
  IF c.orch.isRunning
    THEN [stopTest(c) EXCEPT !.orch.timers = @ + 1]
    ELSE c

\* a click on the start button
StartClick ==
  /\ ~chaos.orch.startButton.disabled
  /\ PendingTests(chaos.orch) < MaxPending
  /\ chaos' = startSequentialTest(chaos)
  /\ UNCHANGED ChaosUnchanged

\* a click on the stop button
StopClick ==
  /\ ~chaos.orch.stopButton.disabled
  /\ chaos' = stopTest(chaos)
  /\ UNCHANGED ChaosUnchanged

\* the size input changes: settings.particleSize, then restartTest if running
SizeInput(v) ==
  /\ PendingTests(chaos.orch) < MaxPending
  /\ chaos' = (LET c == [chaos EXCEPT !.orch.particleSize = v]
               IN IF c.orch.isRunning THEN restartTest(c) ELSE c)
  /\ UNCHANGED ChaosUnchanged

\* the speed input changes: settings.speed, then restartTest if running
SpeedInput(v) ==
  /\ PendingTests(chaos.orch) < MaxPending
  /\ chaos' = (LET c == [chaos EXCEPT !.orch.speed = v]
               IN IF c.orch.isRunning THEN restartTest(c) ELSE c)
  /\ UNCHANGED ChaosUnchanged

\* the 500 ms timer of restartTest expires
RestartTimer ==
  /\ chaos.orch.timers > 0
  /\ chaos' = startSequentialTest([chaos EXCEPT !.orch.timers = @ - 1])
  /\ UNCHANGED ChaosUnchanged

\* the tick of a recorder interval that finds the test's duration elapsed
\* (the earlier ticks only record a sample): the interval is cleared, the
\* test's instance stopped and the promise resolved, and the suspended
\* startSequentialTest goes on, after the DOM test to the pause, after the
\* vector test to its end
RecorderDone(test) ==
  /\ chaos.orch.waiting[test] > 0
  /\ chaos' =
       (LET c == [chaos EXCEPT !.orch.waiting[test] = @ - 1,
                               !.mode[test] = stop(@)]
        IN IF test = "dom"
             THEN [c EXCEPT !.orch.waiting["delay"] = @ + 1]
             ELSE [c EXCEPT !.orch.isRunning = FALSE,
                            !.orch.startButton.disabled = FALSE,
                            !.orch.stopButton.disabled = TRUE])
  /\ UNCHANGED ChaosUnchanged

\* the pause between the tests ends: the suspended call runs runVectorTest
DelayExpires ==
  /\ chaos.orch.waiting["delay"] > 0
  /\ chaos' = runTest([chaos EXCEPT !.orch.waiting["delay"] = @ - 1],
                      "vector")
  /\ UNCHANGED ChaosUnchanged

\* the values of the size and speed inputs
Sizes == {2, 4}
Speeds == {1, 2}

NextOrchestrator ==
  \/ StartClick
  \/ StopClick
  \/ \E v \in Sizes : SizeInput(v)
  \/ \E v \in Speeds : SpeedInput(v)
  \/ RestartTimer
  \/ \E test \in {"dom", "vector"} : RecorderDone(test)
  \/ DelayExpires

\* the orchestrator, its buttons and inputs, and the timers of the browser
SpecOrchestrator == InitChaos /\ [][NextOrchestrator]_vars

\* applySettings on an instance, as runDOMTest and runVectorTest call it
ApplySettings(i) ==
  /\ \A k \in DOMAIN chaos.mode[i].particles :
       /\ Abs(chaos.mode[i].particles[k].vx * chaos.orch.speed) <= MaxVelocity
       /\ Abs(chaos.mode[i].particles[k].vy * chaos.orch.speed) <= MaxVelocity
  /\ chaos' = [chaos EXCEPT !.mode[i] = applySettings(chaos.orch, @)]
  /\ UNCHANGED ChaosUnchanged

\* the widths and heights updateParticles is called with: below, at and
\* above twice the particle sizes
ArenaWidths == {5, 6, 9}
ArenaHeights == {6, 9}

NextParticles ==
  \/ \E w \in ArenaWidths, h \in ArenaHeights : InitParticles("dom", w, h)
  \/ \E w \in ArenaWidths, h \in ArenaHeights : UpdateParticles("dom", w, h)
  \/ ApplySettings("dom")
  \/ \E v \in Sizes : SizeInput(v)
  \/ \E v \in Speeds : SpeedInput(v)

\* the particles of one instance under any sequence of its methods
SpecParticles == InitChaos /\ [][NextParticles]_vars

-----------------------------------------------------------------------------
(* app.js: the chaos sequence                                              *)

\* the startSequentialChaos calls suspended at one of their awaits
Sequences(q) == q.waiting["dom"] + q.waiting["vector"] + q.waiting["figma"]

\* startSequentialChaos up to its first await: the guard on chaosRunning,
\* the buttons, and the DOM step
startSequentialChaos(c) ==
  IF c.seq.chaosRunning
    THEN c
    ELSE [c EXCEPT !.seq.chaosRunning = TRUE,
                   !.seq.chaosButton = Button(TRUE, "dom"),
                   !.seq.stopButton.disabled = FALSE,
                   !.seq.waiting["dom"] = @ + 1]

stopChaosMode(c) ==
  [c EXCEPT !.seq.chaosRunning = FALSE,
            !.mode["dom"] = stop(@),
            !.mode["vector"] = stop(@),
            !.seq.chaosButton = Button(FALSE, "particles"),
            !.seq.stopButton.disabled = TRUE]

\* a click on the chaos button: the arena is shown and the sequence is put
\* on a 500 ms timer
ChaosClick ==
  /\ ~chaos.seq.chaosButton.disabled
  /\ chaos.seq.timers + Sequences(chaos.seq) < MaxPending
  /\ chaos' = [chaos EXCEPT !.seq.timers = @ + 1]
  /\ UNCHANGED ChaosUnchanged

\* the timer of a chaos click expires
ChaosTimer ==
  /\ chaos.seq.timers > 0
  /\ chaos' = startSequentialChaos([chaos EXCEPT !.seq.timers = @ - 1])
  /\ UNCHANGED ChaosUnchanged

\* a click on the stop button
StopChaosClick ==
  /\ ~chaos.seq.stopButton.disabled
  /\ chaos' = stopChaosMode(chaos)
  /\ UNCHANGED ChaosUnchanged

\* the timer a suspended call waits for expires: after the DOM step the
\* vector step runs, after the vector step the Figma step, and after the
\* Figma step the call reports, restores the buttons and clears chaosRunning
StepTimer(step) ==
  /\ chaos.seq.waiting[step] > 0
  /\ chaos' =
       (LET c == [chaos EXCEPT !.seq.waiting[step] = @ - 1]
        IN CASE step = "dom" ->
                  [c EXCEPT !.seq.chaosButton.text = "vector",
                            !.seq.waiting["vector"] = @ + 1]
             [] step = "vector" ->
                  [c EXCEPT !.seq.chaosButton.text = "figma",
                            !.seq.waiting["figma"] = @ + 1]
             [] step = "figma" ->
                  [c EXCEPT !.seq.chaosButton = Button(FALSE, "diia"),
                            !.seq.stopButton.disabled = TRUE,
                            !.seq.chaosRunning = FALSE])
  /\ UNCHANGED ChaosUnchanged

NextSequence ==
  \/ ChaosClick
  \/ ChaosTimer
  \/ StopChaosClick
  \/ \E step \in {"dom", "vector", "figma"} : StepTimer(step)

\* the chaos and stop buttons of the page and the timers of the browser
SpecSequence == InitChaos /\ [][NextSequence]_vars

-----------------------------------------------------------------------------
(* Properties of the renderers                                             *)

\* out and memo are two render(props, scale) calls on the instance
TwoRenders ==
  /\ IsRender(out) /\ IsRender(memo)
  /\ out.fn = "render" /\ memo.fn = "render"
  /\ out.cls = memo.cls
  /\ out.props = memo.props
  /\ out.tilt = memo.tilt

\* C1: for fixed props and two valid scales s1, s2, every linear dimension a
\* vector render emits at s2 is the same dimension at s1 times s2/s1, so
\* d2 * s1 = d1 * s2 for each of them.
C1_UniformScaling ==
  (/\ TwoRenders /\ IsVector(out) /\ out.path = memo.path
   /\ out.scale.k > 0 /\ memo.scale.k > 0)
    => /\ Len(Dims(out)) = Len(Dims(memo))
       /\ \A i \in 1..Len(Dims(out)) :
            Dims(out)[i] * memo.scale.k = Dims(memo)[i] * out.scale.k

\* C2: two render calls with identical props and scale return the same string,
\* for each renderer, whatever the clock did and whichever other renders ran
\* between them.
C2_Deterministic ==
  (TwoRenders /\ out.scale = memo.scale) => Content(out) = Content(memo)

\* C3: with default props at scale 1 the vector renderer's render returns a
\* non-empty string of fewer bytes than the markup renderer's render returns
\* for the same props.
C3_VectorSmaller ==
  (IsVector(out) /\ out.fn = "render" /\ out.props = DefaultProps /\ out.scale = One)
    => /\ OutLength(out) > 0
       /\ OutBytes(out) < OutBytes(DomRenderer_render(FALSE, DefaultProps, One).out)

-----------------------------------------------------------------------------
(* Properties of the layout cursor                                         *)

\* the sum of height + gap over the advanceY calls made since the last reset
RECURSIVE SumAdvances(_)
SumAdvances(calls) ==
  IF calls = <<>> THEN 0
  ELSE Head(calls)[1] + Head(calls)[2] + SumAdvances(Tail(calls))

\* C8: advanceY(height, gap) sets the cursor to its previous value plus
\* height + gap and returns the new value (a call without gap is the call with
\* gap 0); reset() sets the cursor to the starting value; so after reset() and
\* then advanceY calls only, the cursor is the starting value plus the sum of
\* every height + gap.
C8_CursorArithmetic ==
  /\ out.fn = "advanceY" =>
       /\ out.ys[1] = out.pre + out.hs[1] + out.hs[2]
       /\ currentY = out.ys[1]
  /\ out.fn = "reset" => currentY = 0
  /\ advLog.valid => currentY = SumAdvances(advLog.calls)

\* two different advanceY calls, the second with a gap, since the last reset
C8_Witness ==
  /\ out.fn = "advanceY"
  /\ advLog.valid
  /\ Len(advLog.calls) = 2
  /\ advLog.calls[1] # advLog.calls[2]
  /\ out.hs[2] > 0
  /\ out.pre # 0

\* C9: in the stack-layout render at a scale > 0 each of the four blocks is
\* placed at the value the cursor had before that block's advance, the cursor
\* never decreases during the render, and each block's top is at or below the
\* previous block's top plus the previous block's height.
C9_NoOverlap ==
  (out.path = "stack" /\ out.scale.k > 0)
    => /\ Len(out.ys) = 4
       /\ \A i \in 1..4 : out.ys[i] = out.trace[i + 1]
       /\ \A i \in 1..4 : out.trace[i] <= out.trace[i + 1]
       /\ \A i \in 1..3 : out.ys[i + 1] >= out.ys[i] + out.hs[i]
       /\ Nums(out)[8] = out.ys[1] + Px(18, out.scale.k)
       /\ Nums(out)[11] = out.ys[2] + Px(14, out.scale.k)
       /\ Nums(out)[14] = out.ys[3]
       /\ Nums(out)[37] = out.ys[4]

\* a stack-layout render at a scale other than 1 on an instance whose cursor
\* an earlier call had moved
C9_Witness ==
  /\ out.path = "stack"
  /\ out.scale.k > 0
  /\ out.scale.k # ScaleDen
  /\ out.pre # 0

\* the same call on a newly constructed instance
FreshCall(o) ==
  CASE o.path = "stack"  -> Stack_render(0, o.props, o.scale).out
    [] o.path = "upload" ->
         renderUploadScreen(0, o.tilt, <<>>, ZeroStats, o.props, o.scale).out
    [] o.path = "idcard" ->
         renderDiiaIDCard(0, o.tilt, <<>>, ZeroStats, o.props, o.scale).out

\* C10: a vector render places its blocks from a starting offset that depends
\* on the scale only: whatever calls were made on the instance before, the
\* cursor values it goes through and the positions it emits are those of the
\* same call on a new instance, and its first block is where a render of the
\* default props at that scale puts it.
C10_ResetBeforeRender ==
  IsVector(out) =>
    /\ out.trace = FreshCall(out).trace
    /\ out.ys = FreshCall(out).ys
    /\ Dims(out) = Dims(FreshCall(out))
    /\ out.trace[1] = FreshCall([out EXCEPT !.props = DefaultProps]).trace[1]
    /\ (out.path = "stack" => out.ys[1] = Px(24, out.scale.k))

\* a stack-layout render that found the cursor where neither the constructor
\* nor its own first block would have put it
C10_Witness ==
  /\ out.path = "stack"
  /\ out.pre # 0
  /\ out.pre # out.ys[1]
  /\ out.scale.k > 0

-----------------------------------------------------------------------------
(* Properties of the scorer and of the benchmark engine                    *)

\* C4: the score the scorer returns, for a renderer's output and for every
\* combination of token count, element count and formula flag, is an integer
\* from 0 to 100.
C4_ScoreInRange ==
  analysis.kind # "none" => analysis.aiFriendlyScore \in 0..100

\* the score of a short output with formula markers, 110 before the clamp
C4_Witness ==
  /\ analysis.kind = "analysis"
  /\ analysis.hasFormulas
  /\ analysis.estimatedTokens <= 1000
  /\ analysis.elementCount <= 50
  /\ analysis.aiFriendlyScore = 100

\* the length of the UTF-8 encoding of a text given by its code points
RECURSIVE Utf8Length(_)
Utf8Length(cps) ==
  IF cps = <<>> THEN 0 ELSE Utf8Bytes(Head(cps)) + Utf8Length(Tail(cps))

\* C5: the size measureRenderSpeed reports for an output is the length of its
\* UTF-8 encoding, which for an output with a character outside ASCII is more
\* than its number of UTF-16 code units.
C5_Utf8Size ==
  result.kind = "measure" =>
    /\ result.output.kind = "text" =>
         /\ result.size = Utf8Length(result.output.cps)
         /\ (\E i \in 1..Len(result.output.cps) : result.output.cps[i] > 127)
              => result.size > ContentLength(result.output)
    /\ result.output.kind = "render" =>
         /\ result.size = OutBytes(result.output.out)
         /\ result.size > ContentLength(result.output)

\* five Cyrillic letters were measured
C5_Witness ==
  /\ result.kind = "measure"
  /\ result.output = Text(Fixed10Cyrillic)
  /\ result.size = 10

\* C6: for a stress run with count = N > 0, the returned avgSize is the returned
\* totalSize / N and the returned avgTime is the returned totalTime / N.
C6_Averages ==
  (result.kind = "stress" /\ result.count > 0) =>
    /\ result.avgSize.den # 0 /\ result.avgTime.den # 0
    /\ result.avgSize.num * result.count = result.totalSize * result.avgSize.den
    /\ result.avgTime.num * result.count = result.totalTime * result.avgTime.den

\* a run of three whose average size is not a whole number and which took time
C6_Witness ==
  /\ result.kind = "stress"
  /\ result.count = 3
  /\ result.totalSize % 3 # 0
  /\ result.totalTime > 0

\* the byte sizes of the outputs log[lo], ..., log[hi] together
RECURSIVE SumSizes(_, _, _)
SumSizes(log, lo, hi) ==
  IF lo > hi THEN 0
  ELSE IF lo = hi
       THEN (IF log[lo].kind = "text" THEN Utf8Length(log[lo].cps)
             ELSE OutBytes(log[lo].out))
  ELSE LET mid == (lo + hi) \div 2
       IN SumSizes(log, lo, mid) + SumSizes(log, mid + 1, hi)

\* C7: stressTest calls renderFn exactly count times, each call returning
\* before the next begins, and returns as totalSize the sum of the byte sizes
\* of the outputs; a renderFn returning a fixed 10-byte string, with
\* count = 100, gives totalSize = 1000.
C7_ExactlyCountCalls ==
  /\ bench.pc # "idle"
       => bench.begun - bench.returned = (IF bench.pc = "call" THEN 1 ELSE 0)
  /\ result.kind = "stress" => bench.begun = bench.returned
  /\ bench.pc # "idle" =>
       /\ Len(benchLog) = bench.returned
       /\ bench.totalSize = SumSizes(benchLog, 1, Len(benchLog))
  /\ (result.kind = "stress" /\ result.count > 0) =>
       /\ bench.begun = result.count
       /\ bench.returned = result.count
       /\ Len(benchLog) = result.count
       /\ result.totalSize = SumSizes(benchLog, 1, Len(benchLog))
       /\ (result.fn \in {"fixed10", "cyrillic10"} /\ result.count = 100)
            => result.totalSize = 1000

\* the scenario's run has returned: 100 calls of the function that returns
\* five Cyrillic letters
C7_Witness ==
  /\ result.kind = "stress"
  /\ result.fn = "cyrillic10"
  /\ result.count = 100
  /\ bench.returned = 100

-----------------------------------------------------------------------------
(* Properties of the validation of arguments                               *)

\* C11: render(props, scale) with scale = 0 or scale = -1 is rejected with a
\* typed error by every renderer: none returns markup for such a scale.
C11_BadScaleRejected ==
  (out.fn = "render" /\ out.scale \in {NumArg(0), NumArg(-ScaleDen)})
    => /\ out.path = "throw"
       /\ out.err \in {"RangeError", "TypeError", "TypeError: Scale must be a number",
                       "TypeError: Props must be an object"}

\* C12: on render, renderDiiaIDCard and renderUploadScreen of the vector
\* renderer, called with an object as props, a scale that is not a number is
\* rejected with a TypeError, a number <= 0 or > 100 with a RangeError, and a
\* number in (0, 100] is accepted.
C12_ScaleValidation ==
  (/\ out.cls = "v2"
   /\ out.fn \in {"render", "renderDiiaIDCard", "renderUploadScreen"}
   /\ out.props.t = "object")
    => /\ out.scale.t # "number"
            => out.path = "throw" /\ out.err = "TypeError: Scale must be a number"
       /\ (out.scale.t = "number" /\ (out.scale.k <= 0 \/ out.scale.k > 100 * ScaleDen))
            => out.path = "throw" /\ out.err = "RangeError"
       /\ (out.scale.t = "number" /\ out.scale.k > 0 /\ out.scale.k <= 100 * ScaleDen)
            => IsRender(out)

\* renderUploadScreen was called with a scale just above 100
C12_Witness ==
  /\ out.fn = "renderUploadScreen"
  /\ out.props.t = "object"
  /\ out.scale = NumArg(100 * ScaleDen + 1)
  /\ out.err = "RangeError"

\* the length of the texts as they should be emitted: the text given, or the
\* placeholder for a text that is absent or empty
RECURSIVE ExpectedTextUnits(_)
ExpectedTextUnits(ts) ==
  IF ts = <<>> THEN 0
  ELSE (IF Head(ts).given \in {TxtNone, TxtEmpty} THEN Head(ts).units
        ELSE Len(ToUnits(Head(ts).given)))
       + ExpectedTextUnits(Tail(ts))

\* C13: a render call of any renderer whose props are omitted, are {} or lack
\* (or hold '' for) any of title, description, subtitle, buttonText raises no
\* error, and the output holds the placeholder wherever the text is missing.
C13_PlaceholdersForMissing ==
  (/\ out.fn \in {"render", "renderDiiaIDCard", "renderUploadScreen"}
   /\ out.props.t \in {"undefined", "object"}
   /\ _validateScale(out.scale) = "")
    => /\ IsRender(out)
       /\ \A i \in 1..Len(Texts(out)) :
            Content(out).texts[i].placeholder
              <=> Texts(out)[i].given \in {TxtNone, TxtEmpty}
       /\ OutLength(out)
            = FixedUnits(out) + SumNumLen(Nums(out)) + ExpectedTextUnits(Texts(out))

\* the upload screen rendered with an empty title, an absent description and a
\* button text
C13_Witness ==
  /\ out.path = "upload"
  /\ out.props.title = TxtEmpty
  /\ out.props.description = TxtNone
  /\ out.props.subtitle = TxtEmpty
  /\ out.props.buttonText = TxtDiia

-----------------------------------------------------------------------------
(* Properties of the benchmark engine at its edges                         *)

\* C14: an exception of renderFn in measureRenderSpeed, or at any iteration of
\* stressTest, propagates: the call returns no result object, and stressTest
\* makes no call of renderFn after the one that raised.
C14_ExceptionPropagates ==
  /\ result.kind = "measure" => ~renderFn(result.fn, DefaultProps, 0, FALSE).threw
  /\ result.kind = "stress" =>
       \A n \in 0..(bench.returned - 1) : ~renderFn(result.fn, DefaultProps, n, FALSE).threw
  /\ result.kind = "thrown" =>
       /\ bench.pc = "idle"
       /\ DOMAIN result = {"kind", "by", "fn"}
       /\ result.by = "stressTest" =>
            /\ renderFn(bench.fn, bench.props, bench.returned, FALSE).threw
            /\ bench.begun = bench.returned + 1
            /\ Len(benchLog) = bench.returned

\* the second call of renderFn raised in a stress run of three
C14_Witness ==
  /\ result = Raised("stressTest", "throwsSecond")
  /\ bench.count = MaxCount
  /\ bench.returned = 1

\* C15: stressTest rejects a count of zero or less: it raises or clamps the
\* count, and never returns averages divided by such a count.
C15_NonPositiveCountRejected ==
  result.kind = "stress" =>
    /\ result.count > 0
    /\ result.avgTime.den > 0
    /\ result.avgSize.den > 0

-----------------------------------------------------------------------------
(* Properties of the friendliness analysis                                 *)

\* 1 where the condition holds, 0 where it does not
Ind(b) == IF b THEN 1 ELSE 0

\* C16: calculateAIScore(t, e, f) is 100, less 20 if t > 1000, less a further
\* 30 if t > 5000, less 15 if e > 50, less a further 25 if e > 100, plus 10 if
\* f, clamped to 0..100; it does not grow with t or with e, and does not
\* shrink when f turns true.
C16_ScoreFormula ==
  analysis.kind # "none" =>
    LET t == analysis.estimatedTokens
        e == analysis.elementCount
        f == analysis.hasFormulas
        raw == 100 - 20 * Ind(t > 1000) - 30 * Ind(t > 5000)
                   - 15 * Ind(e > 50) - 25 * Ind(e > 100) + 10 * Ind(f)
    IN /\ analysis.aiFriendlyScore = (IF raw < 0 THEN 0 ELSE IF raw > 100 THEN 100 ELSE raw)
       /\ \A t2 \in TokenCounts :
            t2 >= t => calculateAIScore(t2, e, f) <= analysis.aiFriendlyScore
       /\ \A e2 \in ElementCounts :
            e2 >= e => calculateAIScore(t, e2, f) <= analysis.aiFriendlyScore
       /\ calculateAIScore(t, e, TRUE) >= analysis.aiFriendlyScore
       /\ calculateAIScore(t, e, FALSE) <= analysis.aiFriendlyScore

\* every penalty taken and no reward: 100 - 20 - 30 - 15 - 25
C16_Witness ==
  /\ analysis.kind = "score"
  /\ analysis.estimatedTokens = 5001
  /\ analysis.elementCount = 101
  /\ ~analysis.hasFormulas
  /\ analysis.aiFriendlyScore = 10

\* C17: the estimated token count of a content is its length in characters
\* (UTF-16 code units) divided by 4 and rounded up: the least n with
\* 4 * n >= length; it is 0 for the empty string.
C17_TokensCeilQuarter ==
  analysis.kind = "analysis" =>
    LET len == ContentLength(analysis.content)
        n == analysis.estimatedTokens
    IN /\ n >= 0
       /\ 4 * n >= len
       /\ 4 * (n - 1) < len
       /\ len = 0 => n = 0

\* five characters make two tokens
C17_Witness ==
  /\ analysis.kind = "analysis"
  /\ analysis.content = Text(SubSeq(ViewBox, 1, 5))
  /\ analysis.estimatedTokens = 2

\* C18: the analysis of the empty string returns, without an error, an
\* element count of 0, no formulas, and the score of a content with no
\* penalty and no bonus, the same at every call.
C18_EmptyContent ==
  (analysis.kind # "none" /\ analysis.kind # "score" /\ analysis.content = Text(TxtEmpty))
    => /\ analysis.kind = "analysis"
       /\ analysis.elementCount = 0
       /\ ~analysis.hasFormulas
       /\ analysis.aiFriendlyScore = 100

\* the empty string has been analysed
C18_Witness ==
  /\ analysis.kind = "analysis"
  /\ analysis.content = Text(TxtEmpty)
  /\ analysis.estimatedTokens = 0

-----------------------------------------------------------------------------
(* Properties of the page                                                  *)

\* C19: after a click on run-benchmark the button is disabled while the
\* benchmark runs and is enabled again later: a run that throws shows the
\* error indicator and enables the button at once, a run that succeeds
\* enables it when the 2 s timer fires; it never stays disabled for ever.
C19_ButtonReenabled ==
  /\ [](app.h["bench"].pc \in {"delay", "run"} => app.btn["bench"] = Button(TRUE, "running"))
  /\ [](app.btn["bench"].text = "error"
          => ~app.btn["bench"].disabled /\ app.h["bench"].pc = "idle")
  /\ [](app.btn["bench"].text = "complete" => app.btn["bench"].disabled /\ app.timer)
  /\ [](app.btn["bench"].disabled
          => app.h["bench"].pc \in {"delay", "run"} \/ app.timer)
  /\ (app.btn["bench"].disabled ~> ~app.btn["bench"].disabled)

\* the last render of the benchmark threw on the scale of the slider, and the
\* button shows the error
C19_Witness ==
  /\ app.btn["bench"] = Button(FALSE, "error")
  /\ out.path = "throw"
  /\ out.scale = NumArg(0)

\* what a fresh instance returns for the arguments of the call o
Isolated(o) ==
  IF o.cls = "stack" THEN Stack_render(0, o.props, o.scale).out
  ELSE render(0, <<0, 0>>, <<>>, ZeroStats, o.props, o.scale).out

\* C20: the renders on the shared VectorRenderer never overlap: at most one
\* handler is on the main thread, a render that has begun is the running
\* handler's and finds the cursor where its own last step left it, and every
\* output is the output of a fresh instance for the same arguments.
C20_RendersNeverOverlap ==
  /\ Cardinality(app.running) <= 1
  /\ \A h \in Handlers :
       app.h[h].step > 0 =>
         /\ h \in app.running
         /\ currentY = app.h[h].ys[Len(app.h[h].ys)]
  /\ (out.fn = "render" /\ IsRender(out))
       => [out EXCEPT !.pre = 0] = [Isolated(out) EXCEPT !.fn = "render", !.pre = 0]

\* the stress handler has rendered while the benchmark handler waits at its
\* delay
C20_Witness ==
  /\ app.h["bench"].pc = "delay"
  /\ "stress" \in app.running
  /\ app.h["stress"].left < ScenarioCount
  /\ app.h["stress"].step = 2
  /\ IsRender(out)

-----------------------------------------------------------------------------
(* Properties of the 2.0.0 vector renderer's state                         *)

\* C22: on render, renderDiiaIDCard and renderUploadScreen of the vector
\* renderer a props argument that is not an object (a primitive, or null) is
\* rejected by the validation of props with the TypeError 'Props must be an
\* object', and no markup is returned.
C22_NonObjectPropsRejected ==
  (/\ out.cls = "v2"
   /\ out.fn \in {"render", "renderDiiaIDCard", "renderUploadScreen"}
   /\ out.props.t \in {"null", "number"}
   /\ _validateScale(out.scale) = "")
    => /\ out.path = "throw"
       /\ out.err = "TypeError: Props must be an object"

\* v bounded to -1 .. 1 (in 1/Q units)
UnitRange(v) == IF v < -Q THEN -Q ELSE IF v > Q THEN Q ELSE v

\* C23: after construction and after every setTilt(x, y) with numbers, tiltX
\* and tiltY lie in [-1, 1], each the argument bounded to that range (the
\* argument itself when it is inside).
C23_TiltClamped ==
  /\ [](tiltX \in (-Q)..Q /\ tiltY \in (-Q)..Q)
  /\ [][\A x \in TiltValues, y \in TiltValues :
          SetTilt(x, y) => (tiltX' = UnitRange(x) /\ tiltY' = UnitRange(y))]_vars

\* setTilt(-2, 0.5) has been called: the tilt is (-1, 0.5)
C23_Witness ==
  /\ tiltX = -Q
  /\ tiltY = Q \div 2

\* the arguments the validation of renderDiiaIDCard has to reject
IsRejected(props, sc) ==
  \/ props.t \notin {"undefined", "object", "null"}
  \/ sc.t # "number"
  \/ sc.k <= 0
  \/ sc.k > 100 * ScaleDen

C26_CacheBounded ==
  /\ [](Len(patternCache) <= CacheLimit)
  /\ [][stats'.cacheHits = stats.cacheHits + 1 => patternCache' = patternCache]_vars
  /\ [][(stats'.cacheMisses = stats.cacheMisses + 1 /\ Len(patternCache) = CacheLimit)
          => /\ Len(patternCache') = CacheLimit
             /\ SubSeq(patternCache', 1, CacheLimit - 1) = Tail(patternCache)
             /\ \A i \in 1..CacheLimit :
                  patternCache[i].key # patternCache'[CacheLimit].key]_vars

\* the 51st miss has evicted the entry of width 1, and the entry of width 2
\* is now the oldest
C26_Witness ==
  /\ Len(patternCache) = CacheLimit
  /\ stats.cacheMisses = CacheLimit + 1
  /\ stats.cacheHits = 1
  /\ patternCache[1].key.w = Lit(2)

\* the numbers of the string a pattern stands for
PatternText(p) == PatternNums(PatternXs(0, p.w, Px(20, p.k)), p, Px(20, p.k))

\* C27: generateSecurityPattern returns, hit or miss and whatever was
\* generated, evicted or cleared before, the string the computation without
\* a cache returns for the same arguments, and the ID card of the renderer is
\* the ID card of a renderer without the cache.
C27_CacheTransparent ==
  /\ out.fn = "generateSecurityPattern"
       => PatternText(out.pattern)
            = PatternText(Uncached_generateSecurityPattern(out.hs[1], out.hs[2], out.scale.k))
  /\ out.path = "idcard"
       => /\ PatternText(out.pattern)
               = PatternText(Uncached_generateSecurityPattern(
                               Px(CanvasWidth, out.scale.k) - 2 * Px(SpacingMd, out.scale.k),
                               Px(CardHeight, out.scale.k), out.scale.k))
          /\ Content(out)
               = Content(renderDiiaIDCard(0, out.tilt, <<>>, ZeroStats, out.props,
                                          out.scale).out)

\* a hit at scale 2 while the pattern of the same width and height at scale 1
\* is stored too
C27_Witness ==
  /\ out.fn = "generateSecurityPattern"
  /\ out.scale = NumArg(2 * ScaleDen)
  /\ stats.cacheHits = 1
  /\ \E i \in 1..Len(patternCache) :
       patternCache[i].key = CacheKey(out.hs[1], out.hs[2], ScaleDen)

-----------------------------------------------------------------------------
(* Properties of the benchmark suite                                       *)

\* C25: a runBenchmark that a renderer ends by an exception changes none of
\* the entries the engine has stored: no single, stress or efficiency entry
\* is of the failed run.
C25_FailedRunChangesNothing ==
  (result.kind = "thrown" /\ result.by = "runBenchmark")
    => /\ \A r \in {"vector", "dom", "figma"} :
            /\ results.single[r].run < results.run
            /\ results.stress[r].run < results.run
       /\ results.efficiency.run < results.run

-----------------------------------------------------------------------------
(* Properties of the chaos tests                                           *)

\* the closures of an instance that will run again: those with a frame
\* outstanding while the instance is running
LiveLoops(m) == IF m.isRunning THEN {f.loop : f \in m.frames} ELSE {}

\* C28: at most one animation loop of a ChaosMode instance is live at any
\* time: the frames outstanding while it runs belong to one closure, and
\* the particles are only ever moved by the closure of the latest start,
\* never by a frame that a stopped loop had requested
C28_OneLoopLive ==
  \A i \in Instances :
    /\ Cardinality(LiveLoops(chaos.mode[i])) <= 1
    /\ chaos.mode[i].updatedBy \in {0, chaos.mode[i].animate}

InArena(p, r, width, height) ==
  /\ r <= p.x /\ p.x <= width - r
  /\ r <= p.y /\ p.y <= height - r

\* C30: after an updateParticles(width, height) call with width and height
\* at least twice the particle size r, every particle lies inside the arena,
\* r <= x <= width - r and r <= y <= height - r, wherever it was and
\* however fast it moved before the call
C30_ParticlesInArena ==
  \A i \in Instances :
    LET m == chaos.mode[i]
    IN (/\ m.call.fn = "updateParticles"
        /\ m.call.width >= 2 * m.particleSize
        /\ m.call.height >= 2 * m.particleSize)
       => \A k \in DOMAIN m.particles :
            InArena(m.particles[k], m.particleSize, m.call.width,
                    m.call.height)

\* in a 9 by 9 arena a particle of radius 4 has been turned back at the far
\* wall in x and at the near wall in y, at speed 2
C30_Witness ==
  LET m == chaos.mode["dom"]
  IN /\ m.call = [fn |-> "updateParticles", width |-> 9, height |-> 9]
     /\ m.particleSize = 4
     /\ m.particles # <<>>
     /\ m.particles[1].x = 5 /\ m.particles[1].vx = -2
     /\ m.particles[1].y = 4 /\ m.particles[1].vy = 2

\* C29: at most one startSequentialChaos sequence is in progress: no
\* second call gets past the chaosRunning guard while the steps of an
\* earlier call are still to come
C29_OneSequence == Sequences(chaos.seq) <= 1

=============================================================================
